---- MODULE Spec2Model ----
(***************************************************************************)
(* Model of scripts/zfs_pbs_backup.py: the ZFS -> Proxmox Backup Server    *)
(* snapshot-and-backup run.  One run of main() is a sequence of phases     *)
(* (plan, select timestamp, orphan cleanup, create+hold, stamp, PBS        *)
(* status, PBS backup, teardown); every phase is one action that models    *)
(* the whole function main() calls there.  The ZFS pool (datasets,         *)
(* snapshots, holds, snapshot properties) is the environment the commands  *)
(* act on; every command handed to run_cmd is appended to the log `cmds`.  *)
(*                                                                         *)
(* Dataset names are sequences of one-character strings, so that           *)
(* str.startswith and sorted() are computed on characters as Python does.  *)
(***************************************************************************)
EXTENDS Integers, Sequences, FiniteSets, TLC

VARIABLES
    args,              \* the parsed command line (argparse namespace) and os.getuid() == 0
    include_property,  \* environment: dataset -> raw value of the include property
    dir_entries,       \* environment: mountpoint -> [readable, entries] of that directory
    snaps,             \* environment: existing snapshots -> [holds, ts]
    pc,                \* position of main()
    dataset_plans,     \* main(): dataset_plans
    timestamp_current, \* main(): timestamp_current
    snapshot_name,     \* main(): snapshot_name
    cmds,              \* every command passed to run_cmd, in order
    exit_code,         \* process exit code once pc = "done"
    outcome            \* how the process ended

vars == <<args, include_property, dir_entries, snaps, pc, dataset_plans,
          timestamp_current, snapshot_name, cmds, exit_code, outcome>>

(***************************************************************************)
(* Bounds of the model.                                                    *)
(***************************************************************************)
MaxRoots == 2
MaxOldSnapshots == 1

(***************************************************************************)
(* Strings.                                                                *)
(***************************************************************************)
\* ord() of the characters that occur in the dataset names of the model
Ord == [c \in {"-", "/", "a", "t", "x", "f"} |->
          CASE c = "-" -> 45 [] c = "/" -> 47 [] c = "a" -> 97
            [] c = "f" -> 102 [] c = "t" -> 116 [] c = "x" -> 120]

\* str.startswith
StartsWith(s, p) == Len(p) <= Len(s) /\ SubSeq(s, 1, Len(p)) = p

\* the < of Python strings: lexicographic by code point
RECURSIVE StrLess(_, _)
StrLess(a, b) ==
    IF a = <<>> THEN b # <<>>
    ELSE IF b = <<>> THEN FALSE
    ELSE IF Head(a) = Head(b) THEN StrLess(Tail(a), Tail(b))
    ELSE Ord[Head(a)] < Ord[Head(b)]

\* sorted(set(...)) of a set of strings
RECURSIVE SortedSeq(_)
SortedSeq(S) ==
    IF S = {} THEN <<>>
    ELSE LET m == CHOOSE x \in S : \A y \in S \ {x} : StrLess(x, y)
         IN  <<m>> \o SortedSeq(S \ {m})

Range(q) == {q[i] : i \in 1..Len(q)}

\* [x for x in q if P(x)]
RECURSIVE SelectSeqBy(_, _)
SelectSeqBy(q, keep) ==
    IF q = <<>> THEN <<>>
    ELSE (IF Head(q) \in keep THEN <<Head(q)>> ELSE <<>>) \o SelectSeqBy(Tail(q), keep)

(***************************************************************************)
(* The pool.                                                               *)
(***************************************************************************)
T   == <<"t">>
TA  == <<"t", "/", "a">>
TAm == <<"t", "/", "a", "-">>
TAX == <<"t", "/", "a", "/", "x">>

PoolDatasets == {T, TA, TAm, TAX}

\* d is root or a descendant of root (dataset == root or dataset.startswith(root + "/"))
IsSelfOrDescendant(d, root) == d = root \/ StartsWith(d, root \o <<"/">>)

DEFAULT_SNAPSHOT_PREFIX == "zfs-pbs-backup_"
DEFAULT_SNAPSHOT_HOLD_NAME == "zfs-pbs-backup"
ForeignHoldName == "pve-autosnap"
HoldTags == {DEFAULT_SNAPSHOT_HOLD_NAME, ForeignHoldName}

\* a snapshot <dataset>@<prefix><suffix>
Snap(d, n) == [ds |-> d, name |-> n]
SnapName(pre, suf) == [pre |-> pre, suf |-> suf]

(***************************************************************************)
(* Command runner.                                                         *)
(***************************************************************************)
READ_ONLY_ZFS_SUB_COMMANDS == {"zfs list", "zfs get", "zfs holds"}

\* infer_read_only: the read-only allow-list, and any proxmox-backup-client
\* command line without the word "backup"
infer_read_only(cmd) ==
    \/ cmd \in READ_ONLY_ZFS_SUB_COMMANDS
    \/ cmd = "proxmox-backup-client status"

\* run_cmd with the test of read_only inverted
run_cmd_gate_inverted(cmd, dry_run, read_only) ==
    LET ro == IF read_only = "None" THEN infer_read_only(cmd) ELSE read_only = "True"
    IN  ~(dry_run /\ ro)

\* run_cmd's gate: TRUE iff the command reaches subprocess.run.
\* read_only is "None", "True" or "False", as the caller passes it.
run_cmd(cmd, dry_run, read_only) ==
    LET ro == IF read_only = "None" THEN infer_read_only(cmd) ELSE read_only = "True"
    IN  ~(dry_run /\ ~ro)

\* one entry of the command log
Cmd(c, rec, tag, targets, ran, rc) ==
    [cmd |-> c, r |-> rec, tag |-> tag, targets |-> targets, ran |-> ran, rc |-> rc]

\* the state threaded through the calls of one phase: the pool's snapshots,
\* the command log, how the phase stands ("ok" or the way the process ends)
\* and the value the last call returned
Res(s, c, st, ret) == [snaps |-> s, cmds |-> c, st |-> st, ret |-> ret]

Logged(R, entry) == [R EXCEPT !.cmds = Append(@, entry)]

(***************************************************************************)
(* Planner.                                                                *)
(***************************************************************************)
CanonModes == {"true", "false", "recursive", "children"}
OddModes == {"", " Recursive", "yes"}
RawModes == CanonModes \cup OddModes

\* value.strip().lower() on the raw property values of the model
StripLower(raw) == IF raw = " Recursive" THEN "recursive" ELSE raw

\* the normalisation without the check for unknown values
NormalizeMode_keeps_unknown(raw) ==
    LET v == StripLower(raw)
    IN  IF v = "" THEN "false" ELSE v

\* the include mode collect_datasets_to_backup derives from the raw value
NormalizeMode(raw) ==
    LET v == StripLower(raw)
    IN  IF v = "" THEN "false"
        ELSE IF v \notin {"true", "false", "recursive", "children"} THEN "false"
        ELSE v

\* the default mountpoint of a dataset: "/" + name
Mountpoint(d) == <<"/">> \o d

\* get_mountpoints_recursively: the names zfs list -r prints, in its (strcmp) order
get_mountpoints_recursively(root) ==
    SortedSeq({d \in PoolDatasets : IsSelfOrDescendant(d, root)})

\* children_by_parent[dataset]: mountpoints of the listed datasets below it
children_by_parent(listed, d) ==
    {Mountpoint(o) : o \in {x \in Range(listed) : x # d /\ StartsWith(x, d \o <<"/">>)}}

\* is_parent_empty_excluding_child_mounts taking an unreadable mountpoint as empty
is_parent_empty_unreadable_is_empty(dir, child_mounts) ==
    IF ~dir.readable THEN TRUE
    ELSE \A e \in dir.entries : e \in child_mounts

\* is_parent_empty_excluding_child_mounts; dir is [readable, entries], readable
\* FALSE when iterdir raises
is_parent_empty_excluding_child_mounts(dir, child_mounts) ==
    IF ~dir.readable THEN FALSE
    ELSE \A e \in dir.entries : e \in child_mounts

DatasetPlan(d, mode, rec, self) ==
    [dataset |-> d, mountpoint |-> Mountpoint(d), include_mode |-> mode,
     recursive_for_snapshot |-> rec, process_self |-> self]

\* PlanOf with process_self also set for the mode children
PlanOf_children_process_self(listed, d, modes, entries, exclude_empty_parents) ==
    LET include_mode == NormalizeMode(modes[d])
        recursive_flag == include_mode \in {"recursive", "children"}
        self0 == include_mode \in {"true", "recursive", "children"}
        child_mounts == children_by_parent(listed, d)
        process_self ==
            IF self0 /\ exclude_empty_parents /\ child_mounts # {}
               /\ is_parent_empty_excluding_child_mounts(entries[Mountpoint(d)], child_mounts)
            THEN FALSE ELSE self0
    IN  IF include_mode # "false"
        THEN <<DatasetPlan(d, include_mode, recursive_flag, process_self)>>
        ELSE <<>>

\* the plan of one listed dataset (the body of the last loop of
\* collect_datasets_to_backup); <<>> when the mode is false
PlanOf(listed, d, modes, entries, exclude_empty_parents) ==
    LET include_mode == NormalizeMode(modes[d])
        recursive_flag == include_mode \in {"recursive", "children"}
        self0 == include_mode \in {"true", "recursive"}
        child_mounts == children_by_parent(listed, d)
        process_self ==
            IF self0 /\ exclude_empty_parents /\ child_mounts # {}
               /\ is_parent_empty_excluding_child_mounts(entries[Mountpoint(d)], child_mounts)
            THEN FALSE ELSE self0
    IN  IF include_mode # "false"
        THEN <<DatasetPlan(d, include_mode, recursive_flag, process_self)>>
        ELSE <<>>

RECURSIVE PlansOfListed(_, _, _, _, _)
PlansOfListed(listed, rest, modes, entries, xep) ==
    IF rest = <<>> THEN <<>>
    ELSE PlanOf(listed, Head(rest), modes, entries, xep)
         \o PlansOfListed(listed, Tail(rest), modes, entries, xep)

\* the zfs get issued for every listed dataset of a root
RECURSIVE GetLog(_)
GetLog(listed) ==
    IF listed = <<>> THEN <<>>
    ELSE <<Cmd("zfs get", FALSE, "", {Head(listed)}, TRUE, 0)>> \o GetLog(Tail(listed))

\* collect_datasets_to_backup: ret is the plan list; a root that zfs list does
\* not know ends the run (message_for_return_codes, exit 1)
RECURSIVE collect_datasets_to_backup(_, _, _, _, _)
collect_datasets_to_backup(R, roots, modes, entries, xep) ==
    IF roots = <<>> \/ R.st # "ok" THEN R
    ELSE LET root == Head(roots)
             ran == run_cmd("zfs list", FALSE, "True")
         IN  IF root \notin PoolDatasets
             THEN [Logged(R, Cmd("zfs list", TRUE, "", {root}, ran, 1)) EXCEPT !.st = "DatasetMissing"]
             ELSE LET listed == get_mountpoints_recursively(root)
                      R1 == Logged(R, Cmd("zfs list", TRUE, "", {root}, ran, 0))
                      R2 == [R1 EXCEPT !.cmds = @ \o GetLog(listed),
                                       !.ret = @ \o PlansOfListed(listed, listed, modes, entries, xep)]
                  IN  collect_datasets_to_backup(R2, Tail(roots), modes, entries, xep)

(***************************************************************************)
(* ZFS adapter.  The Zfs* operators are the zfs commands themselves: when  *)
(* they fail and what they change in the pool.                             *)
(***************************************************************************)
ARE_WE_ROOT == args.are_we_root

NoSnapshot == [holds |-> {}, ts |-> ""]

\* the existing snapshots a command on sns reaches: with -r also the snapshots
\* of the same name on descendants
Reached(S, sns, rec) ==
    IF rec THEN {x \in DOMAIN S : \E sn \in sns : x.name = sn.name /\ IsSelfOrDescendant(x.ds, sn.ds)}
    ELSE sns \cap DOMAIN S

\* zfs snapshot [-r]: the snapshots it would create
ZfsSnapshotNew(sns, rec) ==
    IF rec THEN {x \in [ds : PoolDatasets, name : {sn.name : sn \in sns}] :
                    \E sn \in sns : x.name = sn.name /\ IsSelfOrDescendant(x.ds, sn.ds)}
    ELSE sns

ZfsSnapshotFails(S, sns, rec) ==
    \/ ~ARE_WE_ROOT
    \/ \E sn \in sns : sn.ds \notin PoolDatasets
    \/ ZfsSnapshotNew(sns, rec) \cap DOMAIN S # {}

ZfsSnapshot(S, sns, rec) ==
    [x \in DOMAIN S \cup ZfsSnapshotNew(sns, rec) |-> IF x \in DOMAIN S THEN S[x] ELSE NoSnapshot]

ZfsHoldFails(S, sns, tag, rec) ==
    \/ ~ARE_WE_ROOT
    \/ \E sn \in sns : sn \notin DOMAIN S
    \/ \E x \in Reached(S, sns, rec) : tag \in S[x].holds

ZfsHold(S, sns, tag, rec) ==
    [x \in DOMAIN S |-> IF x \in Reached(S, sns, rec) THEN [S[x] EXCEPT !.holds = @ \cup {tag}] ELSE S[x]]

ZfsReleaseFails(S, sns, tag, rec) ==
    \/ ~ARE_WE_ROOT
    \/ \E sn \in sns : sn \notin DOMAIN S
    \/ IF rec THEN \A x \in Reached(S, sns, rec) : tag \notin S[x].holds
       ELSE \E x \in sns : tag \notin S[x].holds

ZfsRelease(S, sns, tag, rec) ==
    [x \in DOMAIN S |-> IF x \in Reached(S, sns, rec) THEN [S[x] EXCEPT !.holds = @ \ {tag}] ELSE S[x]]

ZfsDestroyFails(S, sn, rec) ==
    \/ ~ARE_WE_ROOT
    \/ sn \notin DOMAIN S
    \/ \E x \in Reached(S, {sn}, rec) : S[x].holds # {}

\* zfs destroy removes the snapshots it reaches that carry no hold
ZfsDestroy(S, sn, rec) ==
    [x \in DOMAIN S \ {y \in Reached(S, {sn}, rec) : S[y].holds = {}} |-> S[x]]

ZfsSetFails(S, sns) ==
    \/ ~ARE_WE_ROOT
    \/ \E sn \in sns : sn \notin DOMAIN S

ZfsSet(S, sns, value) ==
    [x \in DOMAIN S |-> IF x \in sns THEN [S[x] EXCEPT !.ts = value] ELSE S[x]]

\* zfs_dataset_exists: x is a filesystem name (types "filesystem") or a
\* snapshot name (types "snapshot")
zfs_dataset_exists(S, x, types) ==
    IF types = "filesystem" THEN x \in PoolDatasets ELSE x \in DOMAIN S

\* check_zfs_datasets_exist looking at the privileges before it probes
check_zfs_datasets_exist_privilege_first(R, targets, types) ==
    LET R1 == Logged(R, Cmd("zfs list", FALSE, "", targets, run_cmd("zfs list", FALSE, "True"), 0))
    IN  [R1 EXCEPT !.st = IF ~ARE_WE_ROOT THEN "Privilege"
                          ELSE IF \E x \in targets : ~zfs_dataset_exists(R.snaps, x, types) THEN "DatasetMissing"
                          ELSE "CalledProcessError"]

\* check_zfs_datasets_exist, called after a nonzero exit: probes every target
\* with a read-only zfs list and ends the run as DatasetMissing, as a privilege
\* error or with the CalledProcessError
check_zfs_datasets_exist(R, targets, types) ==
    LET R1 == Logged(R, Cmd("zfs list", FALSE, "", targets, run_cmd("zfs list", FALSE, "True"), 0))
    IN  [R1 EXCEPT !.st = IF \E x \in targets : ~zfs_dataset_exists(R.snaps, x, types) THEN "DatasetMissing"
                          ELSE IF ~ARE_WE_ROOT THEN "Privilege"
                          ELSE "CalledProcessError"]

\* zfs_create_snapshots: ret is the list of snapshot names
zfs_create_snapshots(R, datasets, name, recursive, dry_run) ==
    IF R.st # "ok" THEN R
    ELSE IF datasets = <<>> THEN [R EXCEPT !.ret = {}]
    ELSE LET snapshots == {Snap(d, name) : d \in Range(datasets)}
             ran == run_cmd("zfs snapshot", dry_run, "False")
             failed == ran /\ ZfsSnapshotFails(R.snaps, snapshots, recursive)
             R1 == Logged(R, Cmd("zfs snapshot", recursive, "", snapshots, ran, IF failed THEN 1 ELSE 0))
         IN  IF failed THEN check_zfs_datasets_exist(R1, Range(datasets), "filesystem")
             ELSE [R1 EXCEPT !.snaps = IF ran THEN ZfsSnapshot(@, snapshots, recursive) ELSE @,
                             !.ret = snapshots]

\* zfs_hold_snapshots
zfs_hold_snapshots(R, snapshots, hold_name, recursive, dry_run) ==
    IF R.st # "ok" \/ snapshots = {} THEN R
    ELSE LET ran == run_cmd("zfs hold", dry_run, "False")
             failed == ran /\ ZfsHoldFails(R.snaps, snapshots, hold_name, recursive)
             R1 == Logged(R, Cmd("zfs hold", recursive, hold_name, snapshots, ran, IF failed THEN 1 ELSE 0))
         IN  IF failed THEN check_zfs_datasets_exist(R1, snapshots, "snapshot")
             ELSE [R1 EXCEPT !.snaps = IF ran THEN ZfsHold(@, snapshots, hold_name, recursive) ELSE @]

\* zfs_set of the timestamp property
zfs_set(R, snapshots, value, dry_run) ==
    IF R.st # "ok" \/ snapshots = {} THEN R
    ELSE LET ran == run_cmd("zfs set", dry_run, "False")
             failed == ran /\ ZfsSetFails(R.snaps, snapshots)
             R1 == Logged(R, Cmd("zfs set", FALSE, value, snapshots, ran, IF failed THEN 1 ELSE 0))
         IN  IF failed THEN check_zfs_datasets_exist(R1, snapshots, "snapshot")
             ELSE [R1 EXCEPT !.snaps = IF ran THEN ZfsSet(@, snapshots, value) ELSE @]

\* zfs_create_and_hold_snapshots holding without -r
zfs_create_and_hold_snapshots_plain_hold(R, datasets, name, recursive, hold_snapshots, hold_name, dry_run) ==
    LET R1 == zfs_create_snapshots(R, datasets, name, recursive, dry_run)
    IN  IF hold_snapshots THEN zfs_hold_snapshots(R1, R1.ret, hold_name, FALSE, dry_run)
        ELSE R1

\* zfs_create_and_hold_snapshots
zfs_create_and_hold_snapshots(R, datasets, name, recursive, hold_snapshots, hold_name, dry_run) ==
    LET R1 == zfs_create_snapshots(R, datasets, name, recursive, dry_run)
    IN  IF hold_snapshots THEN zfs_hold_snapshots(R1, R1.ret, hold_name, recursive, dry_run)
        ELSE R1

\* zfs_holds: ret is holds_by_snapshot.  The output of zfs holds [-r] has one
\* line per hold of every snapshot it reaches; a line whose snapshot is not a
\* key of holds_by_snapshot raises KeyError
zfs_holds(R, snapshots, recursive) ==
    IF R.st # "ok" THEN R
    ELSE IF snapshots = {} THEN [R EXCEPT !.ret = <<>>]
    ELSE LET ran == run_cmd("zfs holds", FALSE, "True")
             failed == \E sn \in snapshots : sn \notin DOMAIN R.snaps
             R1 == Logged(R, Cmd("zfs holds", recursive, "", snapshots, ran, IF failed THEN 1 ELSE 0))
             lines == {x \in Reached(R.snaps, snapshots, recursive) : R.snaps[x].holds # {}}
         IN  IF failed THEN check_zfs_datasets_exist(R1, snapshots, "snapshot")
             ELSE IF \E x \in lines : x \notin snapshots THEN [R1 EXCEPT !.st = "KeyError"]
             ELSE [R1 EXCEPT !.ret = [sn \in snapshots |-> R.snaps[sn].holds]]

\* zfs_release_snapshots
zfs_release_snapshots(R, snapshots, hold_name, recursive, dry_run) ==
    IF R.st # "ok" \/ snapshots = {} THEN R
    ELSE LET ran == run_cmd("zfs release", dry_run, "False")
             failed == ran /\ ZfsReleaseFails(R.snaps, snapshots, hold_name, recursive)
             R1 == Logged(R, Cmd("zfs release", recursive, hold_name, snapshots, ran, IF failed THEN 1 ELSE 0))
         IN  IF failed THEN check_zfs_datasets_exist(R1, snapshots, "snapshot")
             ELSE [R1 EXCEPT !.snaps = IF ran THEN ZfsRelease(@, snapshots, hold_name, recursive) ELSE @]

\* the release loop stopping after the first tag
ReleaseEach_first_tag_only(R, tags, by_hold, recursive, dry_run) ==
    IF tags = {} THEN R
    ELSE LET hold == CHOOSE h \in tags : TRUE
         IN  zfs_release_snapshots(R, by_hold[hold], hold, recursive, dry_run)

\* the loop of zfs_release_and_destroy_snapshots over the tags to release
RECURSIVE ReleaseEach(_, _, _, _, _)
ReleaseEach(R, tags, by_hold, recursive, dry_run) ==
    IF tags = {} THEN R
    ELSE LET hold == CHOOSE h \in tags : TRUE
         IN  ReleaseEach(zfs_release_snapshots(R, by_hold[hold], hold, recursive, dry_run),
                         tags \ {hold}, by_hold, recursive, dry_run)

\* the loop of zfs_destroy_snapshots: one zfs destroy per snapshot
RECURSIVE DestroyEach(_, _, _, _)
DestroyEach(R, snapshots, recursive, dry_run) ==
    IF R.st # "ok" \/ snapshots = {} THEN R
    ELSE LET snapshot == CHOOSE x \in snapshots : TRUE
             ran == run_cmd("zfs destroy", dry_run, "False")
             failed == ran /\ ZfsDestroyFails(R.snaps, snapshot, recursive)
             R1 == Logged(R, Cmd("zfs destroy", recursive, "", {snapshot}, ran, IF failed THEN 1 ELSE 0))
             R2 == IF failed THEN check_zfs_datasets_exist(R1, {snapshot}, "snapshot")
                   ELSE [R1 EXCEPT !.snaps = IF ran THEN ZfsDestroy(@, snapshot, recursive) ELSE @]
         IN  DestroyEach(R2, snapshots \ {snapshot}, recursive, dry_run)

\* a snapshot name has an '@'; a bare dataset name has none
HasAt(x) == DOMAIN x = {"ds", "name"}

\* zfs_destroy_snapshots leaving out the names without '@' instead of refusing
zfs_destroy_snapshots_skips_bare(R, snapshots, recursive, dry_run) ==
    IF R.st # "ok" \/ snapshots = {} THEN R
    ELSE DestroyEach(R, {x \in snapshots : HasAt(x)}, recursive, dry_run)

\* zfs_destroy_snapshots: refuses the whole list when a name lacks '@'
zfs_destroy_snapshots(R, snapshots, recursive, dry_run) ==
    IF R.st # "ok" \/ snapshots = {} THEN R
    ELSE IF ~(\A x \in snapshots : HasAt(x)) THEN [R EXCEPT !.st = "NotASnapshot"]
    ELSE DestroyEach(R, snapshots, recursive, dry_run)

\* the classification when our hold suffices also with holding disabled
MayDestroy_without_hold_flag(holds, hold_snapshots, hold_name, force_release) ==
    \/ holds = {}
    \/ holds = {hold_name}
    \/ force_release

\* the classification when our hold among others suffices
MayDestroy_any_of_ours(holds, hold_snapshots, hold_name, force_release) ==
    \/ holds = {}
    \/ (hold_snapshots /\ hold_name \in holds)
    \/ force_release

\* the classification of zfs_release_and_destroy_snapshots: may this snapshot,
\* with these holds, be released and destroyed
MayDestroy(holds, hold_snapshots, hold_name, force_release) ==
    \/ holds = {}
    \/ (hold_snapshots /\ holds = {hold_name})
    \/ force_release

\* logging.warning of zfs_release_and_destroy_snapshots: kind "skip" for a
\* snapshot left alone (its holds listed), kind "force release" for the tags
\* about to be released
Warning(kind, snapshots, holds) ==
    [cmd |-> "logging.warning", r |-> FALSE, tag |-> kind, targets |-> snapshots, ran |-> TRUE, rc |-> 0,
     holds |-> holds]

\* the warnings of the classification loop, one per skipped snapshot
RECURSIVE WarnSkipped(_, _, _)
WarnSkipped(R, skipped, holds_by_snapshot) ==
    IF skipped = {} THEN R
    ELSE LET snapshot == CHOOSE x \in skipped : TRUE
         IN  WarnSkipped(Logged(R, Warning("skip", {snapshot}, holds_by_snapshot[snapshot])),
                         skipped \ {snapshot}, holds_by_snapshot)

\* zfs_release_and_destroy_snapshots destroying before it releases
zfs_release_and_destroy_snapshots_destroy_first(R, datasets, name, recursive, hold_snapshots, hold_name, dry_run, force_release) ==
    IF R.st # "ok" THEN R
    ELSE LET snapshots == {Snap(d, name) : d \in datasets}
             R1 == zfs_holds(R, snapshots, recursive)
             holds_by_snapshot == R1.ret
             queried == IF R1.st = "ok" THEN DOMAIN holds_by_snapshot ELSE {}
             snapshots_to_destroy == {sn \in queried : HasAt(sn) /\ MayDestroy(holds_by_snapshot[sn], hold_snapshots, hold_name, force_release)}
             release_tags == UNION {holds_by_snapshot[sn] : sn \in snapshots_to_destroy}
             snapshots_to_release_by_hold == [h \in release_tags |-> {sn \in snapshots_to_destroy : h \in holds_by_snapshot[sn]}]
             R2 == WarnSkipped(R1, queried \ snapshots_to_destroy, holds_by_snapshot)
             R3 == zfs_destroy_snapshots(R2, snapshots_to_destroy, recursive, dry_run)
         IN  IF R1.st # "ok" THEN R1
             ELSE IF release_tags = {} /\ snapshots_to_destroy = {} THEN R2
             ELSE IF hold_snapshots \/ force_release
             THEN ReleaseEach(R3, release_tags, snapshots_to_release_by_hold, recursive, dry_run)
             ELSE R3

\* zfs_release_and_destroy_snapshots
zfs_release_and_destroy_snapshots(R, datasets, name, recursive, hold_snapshots, hold_name, dry_run, force_release) ==
    IF R.st # "ok" THEN R
    ELSE LET snapshots == {Snap(d, name) : d \in datasets}
             R1 == zfs_holds(R, snapshots, recursive)
             holds_by_snapshot == R1.ret
             queried == IF R1.st = "ok" THEN DOMAIN holds_by_snapshot ELSE {}
             snapshots_to_destroy ==
                 {sn \in queried : HasAt(sn) /\
                     MayDestroy(holds_by_snapshot[sn], hold_snapshots, hold_name, force_release)}
             release_tags == UNION {holds_by_snapshot[sn] : sn \in snapshots_to_destroy}
             snapshots_to_release_by_hold ==
                 [h \in release_tags |-> {sn \in snapshots_to_destroy : h \in holds_by_snapshot[sn]}]
             R2 == WarnSkipped(R1, queried \ snapshots_to_destroy, holds_by_snapshot)
             R3 == IF force_release /\ (Cardinality(release_tags) > 1
                                        \/ (release_tags # {} /\ hold_name \notin release_tags))
                   THEN Logged(R2, Warning("force release",
                                           UNION {snapshots_to_release_by_hold[h] : h \in release_tags},
                                           release_tags))
                   ELSE R2
             R4 == IF hold_snapshots \/ force_release
                   THEN ReleaseEach(R3, release_tags, snapshots_to_release_by_hold, recursive, dry_run)
                   ELSE R2
         IN  IF R1.st # "ok" THEN R1
             ELSE IF release_tags = {} /\ snapshots_to_destroy = {} THEN R2
             ELSE zfs_destroy_snapshots(R4, snapshots_to_destroy, recursive, dry_run)

(***************************************************************************)
(* Snapshot orchestration.                                                 *)
(***************************************************************************)
\* the loop of _minimize_recursive_roots when it compares with the last root only
RECURSIVE MinimizeLoop_last_only(_, _)
MinimizeLoop_last_only(root_datasets, minimized) ==
    IF root_datasets = <<>> THEN minimized
    ELSE LET dataset == Head(root_datasets)
         IN  IF minimized = <<>> \/ ~StartsWith(dataset, minimized[Len(minimized)] \o <<"/">>)
             THEN MinimizeLoop_last_only(Tail(root_datasets), Append(minimized, dataset))
             ELSE MinimizeLoop_last_only(Tail(root_datasets), minimized)

\* the loop of _minimize_recursive_roots over the sorted names
RECURSIVE MinimizeLoop(_, _)
MinimizeLoop(root_datasets, minimized) ==
    IF root_datasets = <<>> THEN minimized
    ELSE LET dataset == Head(root_datasets)
         IN  IF ~(\E i \in 1..Len(minimized) : StartsWith(dataset, minimized[i] \o <<"/">>))
             THEN MinimizeLoop(Tail(root_datasets), Append(minimized, dataset))
             ELSE MinimizeLoop(Tail(root_datasets), minimized)

\* _minimize_recursive_roots without sorted(set(...))
_minimize_recursive_roots_unsorted(recursive_datasets) ==
    MinimizeLoop(recursive_datasets, <<>>)

\* _minimize_recursive_roots
_minimize_recursive_roots(recursive_datasets) ==
    MinimizeLoop(SortedSeq(Range(recursive_datasets)), <<>>)

\* covered_by_recursive without the descendant test
covered_by_recursive_only_equal(dataset, recursive_roots) ==
    \E i \in 1..Len(recursive_roots) : dataset = recursive_roots[i]

\* covered_by_recursive
covered_by_recursive(dataset, recursive_roots) ==
    \E i \in 1..Len(recursive_roots) :
        StartsWith(dataset, recursive_roots[i] \o <<"/">>) \/ dataset = recursive_roots[i]

\* [p.dataset for p in dataset_plans if p.recursive_for_snapshot == flag]
RECURSIVE PlanDatasets(_, _)
PlanDatasets(plans, flag) ==
    IF plans = <<>> THEN <<>>
    ELSE (IF Head(plans).recursive_for_snapshot = flag THEN <<Head(plans).dataset>> ELSE <<>>)
         \o PlanDatasets(Tail(plans), flag)

\* the recursive roots and the non-recursive targets of a plan list
RecursiveRoots(plans) == _minimize_recursive_roots(PlanDatasets(plans, TRUE))

NonRecursiveTargets(plans) ==
    LET recursive_roots == RecursiveRoots(plans)
        non_recursive_candidates == PlanDatasets(plans, FALSE)
    IN  SelectSeqBy(non_recursive_candidates,
                    {d \in Range(non_recursive_candidates) : ~covered_by_recursive(d, recursive_roots)})

\* create_and_hold_snapshots with steps 2 and 4 exchanged
create_and_hold_snapshots_plain_first(R, plans, name, hold_snapshots, hold_name, dry_run) ==
    LET recursive_roots == RecursiveRoots(plans)
        non_recursive_targets == NonRecursiveTargets(plans)
        R1 == IF non_recursive_targets # <<>>
              THEN zfs_create_and_hold_snapshots(R, non_recursive_targets, name, FALSE,
                                                 hold_snapshots, hold_name, dry_run)
              ELSE R
    IN  IF recursive_roots # <<>>
        THEN zfs_create_and_hold_snapshots(R1, recursive_roots, name, TRUE,
                                           hold_snapshots, hold_name, dry_run)
        ELSE R1

\* create_and_hold_snapshots
create_and_hold_snapshots(R, plans, name, hold_snapshots, hold_name, dry_run) ==
    LET recursive_roots == RecursiveRoots(plans)
        R1 == IF recursive_roots # <<>>
              THEN zfs_create_and_hold_snapshots(R, recursive_roots, name, TRUE,
                                                 hold_snapshots, hold_name, dry_run)
              ELSE R
        non_recursive_targets == NonRecursiveTargets(plans)
    IN  IF non_recursive_targets # <<>>
        THEN zfs_create_and_hold_snapshots(R1, non_recursive_targets, name, FALSE,
                                           hold_snapshots, hold_name, dry_run)
        ELSE R1

\* release_and_destroy_snapshots
release_and_destroy_snapshots(R, plans, name, hold_snapshots, hold_name, dry_run) ==
    LET recursive_roots == RecursiveRoots(plans)
        R1 == IF recursive_roots # <<>>
              THEN zfs_release_and_destroy_snapshots(R, Range(recursive_roots), name, TRUE,
                                                     hold_snapshots, hold_name, dry_run, FALSE)
              ELSE R
        non_recursive_targets == NonRecursiveTargets(plans)
    IN  IF non_recursive_targets # <<>>
        THEN zfs_release_and_destroy_snapshots(R1, Range(non_recursive_targets), name, FALSE,
                                               hold_snapshots, hold_name, dry_run, FALSE)
        ELSE R1

\* mark_snapshot_timestamp
mark_snapshot_timestamp(R, plans, timestamp, name, dry_run) ==
    zfs_set(R, {Snap(plans[i].dataset, name) : i \in 1..Len(plans)}, timestamp, dry_run)

(***************************************************************************)
(* Resume and orphan discovery.                                            *)
(***************************************************************************)
\* int() of the decimal strings of the model; str.isdigit() is membership
IntOf == [t \in {"5", "07", "7", "10", "20"} |->
            CASE t = "5" -> 5 [] t = "07" -> 7 [] t = "7" -> 7 [] t = "10" -> 10 [] t = "20" -> 20]
IsDigit(t) == t \in DOMAIN IntOf

\* the order in which zfs list prints the snapshot suffixes of the model
SuffixOrder == <<"", "07", "10", "20", "5", "7", "x">>

\* list_snapshots_for_dataset: the snapshots of this dataset whose name starts
\* with the prefix, as zfs list prints them
list_snapshots_for_dataset(S, dataset, prefix) ==
    LET here == {x \in DOMAIN S : x.ds = dataset /\ x.name.pre = prefix}
    IN  SelectSeqBy([i \in 1..Len(SuffixOrder) |-> Snap(dataset, SnapName(prefix, SuffixOrder[i]))], here)

\* the zfs list and the zfs get commands of one scan of a dataset's snapshots
ScanLog(dataset, snapshots) ==
    <<Cmd("zfs list", FALSE, "", {dataset}, TRUE, 0)>>
    \o [i \in 1..Len(snapshots) |-> Cmd("zfs get", FALSE, "", {snapshots[i]}, TRUE, 0)]

\* ResumeStep taking the name suffix of the first snapshot without isdigit()
ResumeStep_accepts_any_suffix(S, snapshot, prefix, timestamp_newest) ==
    LET timestamp == S[snapshot].ts
        suffix == snapshot.name.suf
    IN  IF IsDigit(timestamp)
        THEN (IF timestamp_newest = "" \/ IntOf[timestamp] > IntOf[timestamp_newest]
              THEN timestamp ELSE timestamp_newest)
        ELSE IF snapshot.name.pre = prefix /\ timestamp_newest = ""
        THEN suffix ELSE timestamp_newest

\* ResumeStep without the comparison with the newest timestamp so far
ResumeStep_last_wins(S, snapshot, prefix, timestamp_newest) ==
    LET timestamp == S[snapshot].ts
        suffix == snapshot.name.suf
    IN  IF IsDigit(timestamp) THEN timestamp
        ELSE IF snapshot.name.pre = prefix /\ IsDigit(suffix) THEN suffix
        ELSE timestamp_newest

\* one step of find_resume_timestamp: the newest timestamp after this snapshot
ResumeStep(S, snapshot, prefix, timestamp_newest) ==
    LET timestamp == S[snapshot].ts
        suffix == snapshot.name.suf
    IN  IF IsDigit(timestamp)
        THEN (IF timestamp_newest = "" \/ IntOf[timestamp] > IntOf[timestamp_newest]
              THEN timestamp ELSE timestamp_newest)
        ELSE IF snapshot.name.pre = prefix /\ IsDigit(suffix)
                /\ (timestamp_newest = "" \/ IntOf[suffix] > IntOf[timestamp_newest])
        THEN suffix ELSE timestamp_newest

RECURSIVE ResumeOverSnapshots(_, _, _, _)
ResumeOverSnapshots(S, snapshots, prefix, newest) ==
    IF snapshots = <<>> THEN newest
    ELSE ResumeOverSnapshots(S, Tail(snapshots), prefix, ResumeStep(S, Head(snapshots), prefix, newest))

\* find_resume_timestamp: ret is the newest timestamp, "" for None
RECURSIVE find_resume_timestamp(_, _, _)
find_resume_timestamp(R, plans, prefix) ==
    IF plans = <<>> THEN R
    ELSE LET snapshots == list_snapshots_for_dataset(R.snaps, Head(plans).dataset, prefix)
             R1 == [R EXCEPT !.cmds = @ \o ScanLog(Head(plans).dataset, snapshots),
                             !.ret = ResumeOverSnapshots(R.snaps, snapshots, prefix, @)]
         IN  find_resume_timestamp(R1, Tail(plans), prefix)

\* EffectiveTimestamp without the fallback to the name suffix
EffectiveTimestamp_property_only(S, snapshot, prefix) ==
    IF IsDigit(S[snapshot].ts) THEN S[snapshot].ts ELSE ""

\* the timestamp find_orphan_snapshots compares with timestamp_current
EffectiveTimestamp(S, snapshot, prefix) ==
    LET timestamp == S[snapshot].ts
        suffix == snapshot.name.suf
    IN  IF ~IsDigit(timestamp)
        THEN (IF snapshot.name.pre = prefix
              THEN (IF IsDigit(suffix) THEN suffix ELSE "")
              ELSE timestamp)
        ELSE timestamp

\* find_orphan_snapshots: ret is the flagged snapshots in the order found
RECURSIVE find_orphan_snapshots(_, _, _, _)
find_orphan_snapshots(R, plans, prefix, current) ==
    IF plans = <<>> THEN R
    ELSE LET snapshots == list_snapshots_for_dataset(R.snaps, Head(plans).dataset, prefix)
             flagged == SelectSeqBy(snapshots,
                            {x \in Range(snapshots) : EffectiveTimestamp(R.snaps, x, prefix) # current})
             R1 == [R EXCEPT !.cmds = @ \o ScanLog(Head(plans).dataset, snapshots),
                             !.ret = @ \o flagged]
         IN  find_orphan_snapshots(R1, Tail(plans), prefix, current)

\* the keys of orphan_datasets_by_snapshot_name in insertion order
RECURSIVE OrphanNames(_, _)
OrphanNames(flagged, seen) ==
    IF flagged = <<>> THEN <<>>
    ELSE IF Head(flagged).name \in seen THEN OrphanNames(Tail(flagged), seen)
    ELSE <<Head(flagged).name>> \o OrphanNames(Tail(flagged), seen \cup {Head(flagged).name})

\* the loop of cleanup_orphans_if_any over the orphan snapshot names
RECURSIVE RemoveOrphans(_, _, _, _, _, _, _)
RemoveOrphans(R, names, flagged, hold_snapshots, hold_name, dry_run, force_release) ==
    IF names = <<>> THEN R
    ELSE LET datasets == {x.ds : x \in {y \in Range(flagged) : y.name = Head(names)}}
             R1 == zfs_release_and_destroy_snapshots(R, datasets, Head(names), FALSE,
                       hold_snapshots, hold_name, dry_run, force_release)
         IN  RemoveOrphans(R1, Tail(names), flagged, hold_snapshots, hold_name, dry_run, force_release)

\* cleanup_orphans_if_any without the return for remove_orphans = "false"
cleanup_orphans_if_any_ignores_false(R, plans, prefix, current, remove_orphans, hold_snapshots, hold_name, dry_run, answer) ==
    LET R1 == find_orphan_snapshots([R EXCEPT !.ret = <<>>], plans, prefix, current)
        flagged == R1.ret
    IN  IF flagged = <<>> THEN R1
        ELSE IF remove_orphans = "ask" /\ answer # "y" THEN R1
        ELSE RemoveOrphans(R1, OrphanNames(flagged, {}), flagged, hold_snapshots, hold_name,
                           dry_run, remove_orphans = "force-release")

\* cleanup_orphans_if_any; answer is what the operator types at the prompt of "ask"
cleanup_orphans_if_any(R, plans, prefix, current, remove_orphans, hold_snapshots, hold_name, dry_run, answer) ==
    LET R1 == find_orphan_snapshots([R EXCEPT !.ret = <<>>], plans, prefix, current)
        flagged == R1.ret
    IN  IF flagged = <<>> THEN R1
        ELSE IF remove_orphans = "false" THEN R1
        ELSE IF remove_orphans = "ask" /\ answer # "y" THEN R1
        ELSE IF remove_orphans \notin {"true", "ask", "only", "force-release"}
        THEN [R1 EXCEPT !.st = "ConfigError"]
        ELSE RemoveOrphans(R1, OrphanNames(flagged, {}), flagged, hold_snapshots, hold_name,
                           dry_run, remove_orphans = "force-release")

(***************************************************************************)
(* Proxmox Backup Server.                                                  *)
(***************************************************************************)
\* pbs_build_repository_string: "".join(repo_parts); an unset argument (None
\* or "", port None or 0) is false in the conditions; ValueError (ret "") when
\* there is no datastore
pbs_build_repository_string(R, username, token_name, server, port, datastore) ==
    IF datastore = "" THEN [R EXCEPT !.st = "ValueError", !.ret = ""]
    ELSE LET user_part == IF username # ""
                          THEN IF token_name # "" THEN username \o "!" \o token_name \o "@"
                               ELSE username \o "@"
                          ELSE ""
             server_part == IF server # "" THEN server \o ":" ELSE ""
             port_part == IF port # 0 THEN ToString(port) \o ":" ELSE ""
         IN  [R EXCEPT !.ret = user_part \o server_part \o port_part \o datastore]

PbsCmd(c, specs, dry_flag, ran, rc) ==
    [cmd |-> c, r |-> FALSE, tag |-> "", targets |-> specs, ran |-> ran, rc |-> rc,
     dry_flag |-> dry_flag]

\* pbs_status without the check of the return code
pbs_status_ignores_rc(R, repository, secret, dry_run, rc) ==
    IF R.st # "ok" THEN R
    ELSE IF repository = "" \/ secret = "" THEN [R EXCEPT !.st = "ConfigError"]
    ELSE Logged(R, PbsCmd("proxmox-backup-client status", <<>>, FALSE,
                          run_cmd("proxmox-backup-client status", dry_run, "True"), rc))

\* pbs_status; rc is the exit code of proxmox-backup-client status
pbs_status(R, repository, secret, dry_run, rc) ==
    IF R.st # "ok" THEN R
    ELSE IF repository = "" \/ secret = "" THEN [R EXCEPT !.st = "ConfigError"]
    ELSE LET ran == run_cmd("proxmox-backup-client status", dry_run, "True")
             R1 == Logged(R, PbsCmd("proxmox-backup-client status", <<>>, FALSE, ran, rc))
         IN  IF rc # 0 THEN [R1 EXCEPT !.st = "PbsAccessError"] ELSE R1

\* pbs_create_archive_name succeeds iff the snapshot directory
\* <mountpoint>/.zfs/snapshot/<snapshot_name> exists
SnapshotDirectoryExists(S, dataset, name) == Snap(dataset, name) \in DOMAIN S

\* pbs_backup_dataset_snapshot without the check of the return code
pbs_backup_dataset_snapshot_ignores_rc(R, plans, name, repository, secret, mode, dry_run, rc) ==
    IF R.st # "ok" THEN R
    ELSE LET archive_names == [i \in 1..Len(plans) |-> plans[i].dataset]
             ran == run_cmd("proxmox-backup-client backup", dry_run, "False")
             code == IF ran THEN rc ELSE 0
             R1 == Logged(R, PbsCmd("proxmox-backup-client backup", archive_names, dry_run, ran, code))
         IN  IF \E i \in 1..Len(plans) : ~SnapshotDirectoryExists(R.snaps, plans[i].dataset, name)
             THEN [R EXCEPT !.st = "SnapshotDirectoryMissing"]
             ELSE IF repository = "" \/ secret = "" THEN [R EXCEPT !.st = "ConfigError"]
             ELSE IF mode # "" /\ mode \notin {"legacy", "data", "metadata"}
             THEN [R EXCEPT !.st = "ConfigError"]
             ELSE R1

\* pbs_backup_dataset_snapshot; rc is the exit code of proxmox-backup-client backup
pbs_backup_dataset_snapshot(R, plans, name, repository, secret, mode, dry_run, rc) ==
    IF R.st # "ok" THEN R
    ELSE LET archive_names == [i \in 1..Len(plans) |-> plans[i].dataset]
             ran == run_cmd("proxmox-backup-client backup", dry_run, "False")
             code == IF ran THEN rc ELSE 0
             R1 == Logged(R, PbsCmd("proxmox-backup-client backup", archive_names, dry_run, ran, code))
         IN  IF \E i \in 1..Len(plans) : ~SnapshotDirectoryExists(R.snaps, plans[i].dataset, name)
             THEN [R EXCEPT !.st = "SnapshotDirectoryMissing"]
             ELSE IF repository = "" \/ secret = "" THEN [R EXCEPT !.st = "ConfigError"]
             ELSE IF mode # "" /\ mode \notin {"legacy", "data", "metadata"}
             THEN [R EXCEPT !.st = "ConfigError"]
             ELSE IF code # 0 THEN [R1 EXCEPT !.st = "PbsBackupFailed"]
             ELSE R1

(***************************************************************************)
(* Initial states: the command line, the pool and the directories.         *)
(***************************************************************************)
RootNames == {T, TA}

\* the lists of root datasets of at most MaxRoots names
RootLists == UNION {[1..n -> RootNames] : n \in 1..MaxRoots}

Mounts == {Mountpoint(d) : d \in PoolDatasets}

\* the directory of a mountpoint holds the mount directories of the child
\* datasets, and possibly a file of its own
ChildMountsOf(d) ==
    {Mountpoint(o) : o \in {x \in PoolDatasets :
        StartsWith(x, d \o <<"/">>) /\ ~(\E y \in PoolDatasets : StartsWith(y, d \o <<"/">>) /\ StartsWith(x, y \o <<"/">>))}}
FileOf(d) == Mountpoint(d) \o <<"/", "f">>
DirOnlyMounts(d) == [readable |-> TRUE, entries |-> ChildMountsOf(d)]
DirWithFile(d) == [readable |-> TRUE, entries |-> ChildMountsOf(d) \cup {FileOf(d)}]
DirUnreadable(d) == [readable |-> FALSE, entries |-> {}]
DirChoices(d) == {DirOnlyMounts(d), DirWithFile(d), DirUnreadable(d)}
DatasetOfMount(m) == CHOOSE d \in PoolDatasets : Mountpoint(d) = m
NaturalDirs == [m \in Mounts |-> DirWithFile(DatasetOfMount(m))]

\* the timestamps time.time() can give; snapshots of earlier runs are older
NowValues == {"20"}

\* snapshots an earlier run (or an operator) may have left in the pool
OldSnapshotIds == {Snap(d, SnapName(DEFAULT_SNAPSHOT_PREFIX, suf)) : d \in {TA, TAX}, suf \in {"5", "x"}}
OldSnapshotValues == [holds : SUBSET HoldTags, ts : {"", "7"}]
OldPools ==
    UNION {[ids -> OldSnapshotValues] : ids \in {x \in SUBSET OldSnapshotIds : Cardinality(x) <= MaxOldSnapshots}}

EmptyPool == [x \in {} |-> NoSnapshot]

Args(roots, execute, resume, hold, xep, orphans, root, datastore, secret) ==
    [datasets |-> roots, execute |-> execute, resume |-> resume, hold_snapshots |-> hold,
     exclude_empty_parents |-> xep, remove_orphans |-> orphans, are_we_root |-> root,
     pbs_repository |-> "", pbs_username |-> "", pbs_server |-> "", pbs_port |-> 0,
     pbs_datastore |-> datastore, pbs_secret |-> secret,
     pbs_change_detection_mode |-> "metadata",
     zfs_snapshot_prefix |-> DEFAULT_SNAPSHOT_PREFIX, zfs_hold_name |-> DEFAULT_SNAPSHOT_HOLD_NAME]

RemoveOrphansChoices == {"true", "false", "ask", "only", "force-release"}

\* include-property assignments with at most one value outside the four modes
ModeAssignments ==
    {m \in [PoolDatasets -> RawModes] : Cardinality({d \in PoolDatasets : m[d] \in OddModes}) <= 1}

ScenarioModes ==
    { [d \in PoolDatasets |-> IF d = T THEN "recursive" ELSE IF d = TA THEN "children"
                              ELSE IF d = TAX THEN "true" ELSE "false"],
      [d \in PoolDatasets |-> IF d = TA THEN "true" ELSE IF d = TAX THEN "true" ELSE "false"],
      [d \in PoolDatasets |-> IF d = TA THEN "true" ELSE "false"] }

\* a fresh pool, every include-mode assignment
InitModes ==
    /\ include_property \in ModeAssignments
    /\ dir_entries = NaturalDirs
    /\ snaps = EmptyPool
    /\ \E execute \in BOOLEAN, hold \in BOOLEAN :
          args = Args(<<T>>, execute, FALSE, hold, FALSE, "true", TRUE, "store", "secret")

\* several roots, also repeated or nested
InitRoots ==
    /\ include_property \in [PoolDatasets -> {"true", "recursive", "false"}]
    /\ dir_entries = NaturalDirs
    /\ snaps = EmptyPool
    /\ \E roots \in RootLists :
          args = Args(roots, TRUE, FALSE, TRUE, FALSE, "true", TRUE, "store", "secret")

\* parents whose directory holds only the child mounts, or cannot be read
InitEmptyParents ==
    /\ include_property \in {m \in [PoolDatasets -> {"true", "recursive", "children"}] :
                                m[TAm] = "true" /\ m[TAX] = "true"}
    /\ dir_entries \in {e \in [Mounts -> UNION {DirChoices(d) : d \in PoolDatasets}] :
                          \A d \in PoolDatasets :
                             /\ e[Mountpoint(d)] \in DirChoices(d)
                             /\ d \in {TAm, TAX} => e[Mountpoint(d)] = DirWithFile(d)}
    /\ snaps = EmptyPool
    /\ \E execute \in BOOLEAN, xep \in BOOLEAN :
          args = Args(<<T>>, execute, FALSE, TRUE, xep, "true", TRUE, "store", "secret")

\* snapshots of earlier runs in the pool, every orphan policy, resume or not
InitOldSnapshots ==
    /\ include_property \in ScenarioModes
    /\ dir_entries = NaturalDirs
    /\ snaps \in OldPools
    /\ \E execute \in BOOLEAN, resume \in BOOLEAN, hold \in BOOLEAN, orphans \in RemoveOrphansChoices :
          args = Args(<<T>>, execute, resume, hold, FALSE, orphans, TRUE, "store", "secret")

\* not root, or the PBS options incomplete
InitConfig ==
    /\ include_property \in ScenarioModes
    /\ dir_entries = NaturalDirs
    /\ snaps \in OldPools
    /\ \E execute \in BOOLEAN, root \in BOOLEAN, datastore \in {"", "store"}, secret \in {"", "secret"} :
          /\ ~root \/ datastore = "" \/ secret = ""
          /\ args = Args(<<T>>, execute, FALSE, TRUE, FALSE, "true", root, datastore, secret)

\* nothing is selected: every include property is false or missing, for
\* every orphan policy, resume or not
InitNoPlans ==
    /\ include_property \in {m \in [PoolDatasets -> {"false", ""}] : \A d \in {T, TA, TAm} : m[d] = "false"}
    /\ dir_entries = NaturalDirs
    /\ snaps \in OldPools
    /\ \E execute \in BOOLEAN, resume \in BOOLEAN, orphans \in RemoveOrphansChoices :
          args = Args(<<T>>, execute, resume, TRUE, FALSE, orphans, TRUE, "store", "secret")

Init ==
    /\ pc = "plan"
    /\ dataset_plans = <<>>
    /\ timestamp_current = ""
    /\ snapshot_name = SnapName("", "")
    /\ cmds = <<>>
    /\ exit_code = -1
    /\ outcome = "running"
    /\ (InitModes \/ InitRoots \/ InitEmptyParents \/ InitOldSnapshots \/ InitConfig \/ InitNoPlans)

(***************************************************************************)
(* main(): one action per phase.                                           *)
(***************************************************************************)
Start == Res(snaps, cmds, "ok", <<>>)

dry_run == ~args.execute

\* Continue going on to the next phase also after an error
Continue_ignores_failure(R, next) ==
    /\ snaps' = R.snaps
    /\ cmds' = R.cmds
    /\ pc' = next
    /\ UNCHANGED <<exit_code, outcome>>

\* the phase ended: on to the next one, or the process ends with exit code 1
Continue(R, next) ==
    /\ snaps' = R.snaps
    /\ cmds' = R.cmds
    /\ IF R.st = "ok"
       THEN pc' = next /\ UNCHANGED <<exit_code, outcome>>
       ELSE pc' = "done" /\ exit_code' = 1 /\ outcome' = R.st

\* main() returns code
Return(R, code) ==
    /\ snaps' = R.snaps
    /\ cmds' = R.cmds
    /\ pc' = "done"
    /\ exit_code' = code
    /\ outcome' = "return"

\* CollectDatasets without the early return on an empty plan list
CollectDatasets_no_early_return ==
    /\ pc = "plan"
    /\ LET R == collect_datasets_to_backup(Start, args.datasets, include_property, dir_entries,
                                           args.exclude_empty_parents)
       IN  Continue(R, "select_timestamp") /\ dataset_plans' = R.ret
    /\ UNCHANGED <<args, include_property, dir_entries, timestamp_current, snapshot_name>>

CollectDatasets ==
    /\ pc = "plan"
    /\ LET R == collect_datasets_to_backup(Start, args.datasets, include_property, dir_entries,
                                           args.exclude_empty_parents)
       IN  IF R.st = "ok" /\ R.ret = <<>>
           THEN Return(R, 0) /\ UNCHANGED dataset_plans
           ELSE Continue(R, "select_timestamp") /\ dataset_plans' = R.ret
    /\ UNCHANGED <<args, include_property, dir_entries, timestamp_current, snapshot_name>>

SelectTimestamp ==
    /\ pc = "select_timestamp"
    /\ \E timestamp_now \in NowValues :
         IF args.resume
         THEN LET R == find_resume_timestamp([Start EXCEPT !.ret = ""], dataset_plans, args.zfs_snapshot_prefix)
                  timestamp_newest == R.ret
              IN  IF timestamp_newest = ""
                  THEN Return(R, 1) /\ UNCHANGED <<timestamp_current, snapshot_name>>
                  ELSE /\ Continue(R, "cleanup_orphans")
                       /\ snapshot_name' = SnapName(args.zfs_snapshot_prefix, timestamp_newest)
                       /\ timestamp_current' = timestamp_newest
         ELSE /\ Continue(Start, "cleanup_orphans")
              /\ snapshot_name' = SnapName(args.zfs_snapshot_prefix, timestamp_now)
              /\ timestamp_current' = timestamp_now
    /\ UNCHANGED <<args, include_property, dir_entries, dataset_plans>>

\* CleanupOrphans without the early return of --remove-orphans=only
CleanupOrphans_ignores_only ==
    /\ pc = "cleanup_orphans"
    /\ \E answer \in {"y", "n"} :
         Continue(cleanup_orphans_if_any(Start, dataset_plans, args.zfs_snapshot_prefix, timestamp_current,
                                         args.remove_orphans, args.hold_snapshots, args.zfs_hold_name,
                                         dry_run, answer),
                  IF args.resume THEN "pbs_status" ELSE "create_snapshots")
    /\ UNCHANGED <<args, include_property, dir_entries, dataset_plans, timestamp_current, snapshot_name>>

\* CleanupOrphans going on to snapshot creation also in a resume run
CleanupOrphans_always_creates ==
    /\ pc = "cleanup_orphans"
    /\ \E answer \in {"y", "n"} :
         LET R == cleanup_orphans_if_any(Start, dataset_plans, args.zfs_snapshot_prefix, timestamp_current,
                                         args.remove_orphans, args.hold_snapshots, args.zfs_hold_name,
                                         dry_run, answer)
         IN  IF R.st = "ok" /\ args.remove_orphans = "only"
             THEN Return(R, 0)
             ELSE Continue(R, "create_snapshots")
    /\ UNCHANGED <<args, include_property, dir_entries, dataset_plans, timestamp_current, snapshot_name>>

CleanupOrphans ==
    /\ pc = "cleanup_orphans"
    /\ \E answer \in {"y", "n"} :
         LET R == cleanup_orphans_if_any(Start, dataset_plans, args.zfs_snapshot_prefix, timestamp_current,
                                         args.remove_orphans, args.hold_snapshots, args.zfs_hold_name,
                                         dry_run, answer)
         IN  IF R.st = "ok" /\ args.remove_orphans = "only"
             THEN Return(R, 0)
             ELSE Continue(R, IF args.resume THEN "pbs_status" ELSE "create_snapshots")
    /\ UNCHANGED <<args, include_property, dir_entries, dataset_plans, timestamp_current, snapshot_name>>

CreateSnapshots ==
    /\ pc = "create_snapshots"
    /\ Continue(create_and_hold_snapshots(Start, dataset_plans, snapshot_name, args.hold_snapshots,
                                          args.zfs_hold_name, dry_run),
                "mark_timestamp")
    /\ UNCHANGED <<args, include_property, dir_entries, dataset_plans, timestamp_current, snapshot_name>>

MarkTimestamp ==
    /\ pc = "mark_timestamp"
    /\ Continue(mark_snapshot_timestamp(Start, dataset_plans, timestamp_current, snapshot_name, dry_run),
                "pbs_status")
    /\ UNCHANGED <<args, include_property, dir_entries, dataset_plans, timestamp_current, snapshot_name>>

\* the repository string main() passes on
Repository(R) ==
    IF args.pbs_repository # "" THEN [R EXCEPT !.ret = args.pbs_repository]
    ELSE pbs_build_repository_string(R, args.pbs_username, "", args.pbs_server, args.pbs_port, args.pbs_datastore)

PbsStatus ==
    /\ pc = "pbs_status"
    /\ \E rc \in {0, 1} :
         LET R == Repository(Start)
         IN  Continue(pbs_status(R, R.ret, args.pbs_secret, dry_run, rc), "pbs_backup")
    /\ UNCHANGED <<args, include_property, dir_entries, dataset_plans, timestamp_current, snapshot_name>>

PbsBackup ==
    /\ pc = "pbs_backup"
    /\ \E rc \in {0, 1} :
         LET R == Repository(Start)
         IN  Continue(pbs_backup_dataset_snapshot(R, dataset_plans, snapshot_name, R.ret, args.pbs_secret,
                                                  args.pbs_change_detection_mode, dry_run, rc),
                      "teardown")
    /\ UNCHANGED <<args, include_property, dir_entries, dataset_plans, timestamp_current, snapshot_name>>

Teardown ==
    /\ pc = "teardown"
    /\ LET R == release_and_destroy_snapshots(Start, dataset_plans, snapshot_name, args.hold_snapshots,
                                              args.zfs_hold_name, dry_run)
       IN  IF R.st = "ok" THEN Return(R, 0) ELSE Continue(R, "done")
    /\ UNCHANGED <<args, include_property, dir_entries, dataset_plans, timestamp_current, snapshot_name>>

Next ==
    \/ CollectDatasets
    \/ SelectTimestamp
    \/ CleanupOrphans
    \/ CreateSnapshots
    \/ MarkTimestamp
    \/ PbsStatus
    \/ PbsBackup
    \/ Teardown

Spec == Init /\ [][Next]_vars

(***************************************************************************)
(* Second specification: the scans of the snapshots earlier runs left,     *)
(* find_resume_timestamp and find_orphan_snapshots, over richer pools.     *)
(***************************************************************************)
MaxScanSnapshots == 2

OtherPrefix == "manual_"

\* snapshots with our prefix on two planned datasets and an unplanned one,
\* and a snapshot with another prefix
ScanSnapshotIds ==
    {Snap(d, SnapName(DEFAULT_SNAPSHOT_PREFIX, suf)) : d \in {T, TA, TAm}, suf \in {"5", "07", "10", "x"}}
    \cup {Snap(TA, SnapName(OtherPrefix, "20"))}

ScanPools ==
    UNION {[ids -> [holds : {{}}, ts : {"", "7", "10"}]] :
              ids \in {x \in SUBSET ScanSnapshotIds : Cardinality(x) <= MaxScanSnapshots}}

ScanInit ==
    /\ pc = "plan"
    /\ dataset_plans = <<>>
    /\ timestamp_current = ""
    /\ snapshot_name = SnapName("", "")
    /\ cmds = <<>>
    /\ exit_code = -1
    /\ outcome = "running"
    /\ include_property = [d \in PoolDatasets |-> IF d = T THEN "recursive" ELSE IF d = TA THEN "children"
                                                  ELSE IF d = TAX THEN "true" ELSE "false"]
    /\ dir_entries = NaturalDirs
    /\ snaps \in ScanPools
    /\ \E resume \in BOOLEAN, orphans \in {"false", "force-release"} :
          args = Args(<<T>>, TRUE, resume, TRUE, FALSE, orphans, TRUE, "store", "secret")

ScanNext ==
    \/ CollectDatasets
    \/ SelectTimestamp
    \/ CleanupOrphans

SpecScan == ScanInit /\ [][ScanNext]_vars

(***************************************************************************)
(* Third specification: snapshot creation over arbitrary lists of         *)
(* recursive plans, the inputs of _minimize_recursive_roots.               *)
(***************************************************************************)
MaxListLen == 3

\* the lists of dataset names, with repetitions and in any order
DatasetLists == UNION {[1..n -> PoolDatasets] : n \in 0..MaxListLen}

MinimizeInit ==
    /\ pc = "create_snapshots"
    /\ \E S \in DatasetLists :
          dataset_plans = [i \in 1..Len(S) |-> DatasetPlan(S[i], "recursive", TRUE, TRUE)]
    /\ timestamp_current \in NowValues
    /\ snapshot_name = SnapName(DEFAULT_SNAPSHOT_PREFIX, timestamp_current)
    /\ cmds = <<>>
    /\ exit_code = -1
    /\ outcome = "running"
    /\ include_property = [d \in PoolDatasets |-> "recursive"]
    /\ dir_entries = NaturalDirs
    /\ snaps = EmptyPool
    /\ \E execute \in BOOLEAN, hold \in BOOLEAN :
          args = Args(<<T>>, execute, FALSE, hold, FALSE, "true", TRUE, "store", "secret")

MinimizeNext ==
    \/ CreateSnapshots
    \/ MarkTimestamp

SpecMinimize == MinimizeInit /\ [][MinimizeNext]_vars

(***************************************************************************)
(* Fourth specification: orphan cleanup over pools with several orphans    *)
(* and every combination of hold tags, for every orphan policy.            *)
(***************************************************************************)
MaxOrphans == 2

OrphanPools ==
    UNION {[ids -> [holds : SUBSET HoldTags, ts : {""}]] :
              ids \in {x \in SUBSET OldSnapshotIds : Cardinality(x) <= MaxOrphans}}

OrphansInit ==
    /\ pc = "plan"
    /\ dataset_plans = <<>>
    /\ timestamp_current = ""
    /\ snapshot_name = SnapName("", "")
    /\ cmds = <<>>
    /\ exit_code = -1
    /\ outcome = "running"
    /\ include_property = [d \in PoolDatasets |-> IF d \in {TA, TAX} THEN "true" ELSE "false"]
    /\ dir_entries = NaturalDirs
    /\ snaps \in OrphanPools
    /\ \E execute \in BOOLEAN, hold \in BOOLEAN, orphans \in RemoveOrphansChoices :
          args = Args(<<T>>, execute, FALSE, hold, FALSE, orphans, TRUE, "store", "secret")

OrphansNext ==
    \/ CollectDatasets
    \/ SelectTimestamp
    \/ CleanupOrphans
    \/ CreateSnapshots

SpecOrphans == OrphansInit /\ [][OrphansNext]_vars

(***************************************************************************)
(* Fifth specification: cleanup_orphans_if_any called on its own, with     *)
(* every value of remove_orphans a caller can pass, the ones outside the   *)
(* documented five included.                                               *)
(***************************************************************************)
InvalidRemoveOrphans == {"", "yes"}

CleanupInit ==
    /\ pc = "cleanup_orphans"
    /\ dataset_plans = <<DatasetPlan(TA, "true", FALSE, TRUE), DatasetPlan(TAX, "true", FALSE, TRUE)>>
    /\ \E timestamp_now \in NowValues :
          /\ timestamp_current = timestamp_now
          /\ snapshot_name = SnapName(DEFAULT_SNAPSHOT_PREFIX, timestamp_now)
    /\ cmds = <<>>
    /\ exit_code = -1
    /\ outcome = "running"
    /\ include_property = [d \in PoolDatasets |-> IF d \in {TA, TAX} THEN "true" ELSE "false"]
    /\ dir_entries = NaturalDirs
    /\ snaps \in OrphanPools
    /\ \E execute \in BOOLEAN, hold \in BOOLEAN, orphans \in RemoveOrphansChoices \cup InvalidRemoveOrphans :
          args = Args(<<T>>, execute, FALSE, hold, FALSE, orphans, TRUE, "store", "secret")

CleanupNext ==
    \/ CleanupOrphans

SpecCleanup == CleanupInit /\ [][CleanupNext]_vars

(***************************************************************************)
(* Sixth specification: one call of a function of the ZFS adapter, on      *)
(* every small pool, as root and not, in execute mode and in dry run.  pc  *)
(* is the function called; "returned" when it has returned normally.       *)
(***************************************************************************)
MaxTargets == 2

\* a dataset that is not in the pool
Gone == <<"f">>

CallSnapshotName == SnapName(DEFAULT_SNAPSHOT_PREFIX, "5")
CallSnapshotIds == {Snap(d, CallSnapshotName) : d \in {T, TA}}

\* a name without '@' handed over as a snapshot
BareNames == {[ds |-> TA]}

CallPools == UNION {[ids -> [holds : SUBSET HoldTags, ts : {""}]] : ids \in SUBSET CallSnapshotIds}

TargetsOver(names) == {x \in SUBSET names : Cardinality(x) >= 1 /\ Cardinality(x) <= MaxTargets}

CallArgs(datasets, snapshots, hold_name, recursive, execute, root) ==
    [datasets |-> datasets, snapshots |-> snapshots, zfs_hold_name |-> hold_name, recursive |-> recursive,
     execute |-> execute, are_we_root |-> root]

CallsInit ==
    /\ dataset_plans = <<>>
    /\ timestamp_current = "5"
    /\ snapshot_name = CallSnapshotName
    /\ cmds = <<>>
    /\ exit_code = -1
    /\ outcome = "running"
    /\ include_property = [d \in PoolDatasets |-> "false"]
    /\ dir_entries = NaturalDirs
    /\ snaps \in CallPools
    /\ \E recursive \in BOOLEAN, execute \in BOOLEAN, root \in BOOLEAN :
          \/ /\ pc = "zfs_create_snapshots"
             /\ \E datasets \in TargetsOver({T, TA, Gone}) :
                   args = CallArgs(SortedSeq(datasets), {}, "", recursive, execute, root)
          \/ /\ pc \in {"zfs_hold_snapshots", "zfs_release_snapshots"}
             /\ \E snapshots \in TargetsOver(CallSnapshotIds), hold_name \in HoldTags :
                   args = CallArgs(<<>>, snapshots, hold_name, recursive, execute, root)
          \/ /\ pc \in {"zfs_set", "zfs_holds"}
             /\ \E snapshots \in TargetsOver(CallSnapshotIds) :
                   args = CallArgs(<<>>, snapshots, "", recursive, execute, root)
          \/ /\ pc = "zfs_destroy_snapshots"
             /\ \E snapshots \in TargetsOver(CallSnapshotIds \cup BareNames) :
                   args = CallArgs(<<>>, snapshots, "", recursive, execute, root)

CallCreateSnapshots ==
    /\ pc = "zfs_create_snapshots"
    /\ Continue(zfs_create_snapshots(Start, args.datasets, snapshot_name, args.recursive, dry_run), "returned")
    /\ UNCHANGED <<args, include_property, dir_entries, dataset_plans, timestamp_current, snapshot_name>>

CallHoldSnapshots ==
    /\ pc = "zfs_hold_snapshots"
    /\ Continue(zfs_hold_snapshots(Start, args.snapshots, args.zfs_hold_name, args.recursive, dry_run), "returned")
    /\ UNCHANGED <<args, include_property, dir_entries, dataset_plans, timestamp_current, snapshot_name>>

CallReleaseSnapshots ==
    /\ pc = "zfs_release_snapshots"
    /\ Continue(zfs_release_snapshots(Start, args.snapshots, args.zfs_hold_name, args.recursive, dry_run), "returned")
    /\ UNCHANGED <<args, include_property, dir_entries, dataset_plans, timestamp_current, snapshot_name>>

CallDestroySnapshots ==
    /\ pc = "zfs_destroy_snapshots"
    /\ Continue(zfs_destroy_snapshots(Start, args.snapshots, args.recursive, dry_run), "returned")
    /\ UNCHANGED <<args, include_property, dir_entries, dataset_plans, timestamp_current, snapshot_name>>

CallSet ==
    /\ pc = "zfs_set"
    /\ Continue(zfs_set(Start, args.snapshots, timestamp_current, dry_run), "returned")
    /\ UNCHANGED <<args, include_property, dir_entries, dataset_plans, timestamp_current, snapshot_name>>

CallHolds ==
    /\ pc = "zfs_holds"
    /\ Continue(zfs_holds(Start, args.snapshots, args.recursive), "returned")
    /\ UNCHANGED <<args, include_property, dir_entries, dataset_plans, timestamp_current, snapshot_name>>

CallsNext ==
    \/ CallCreateSnapshots
    \/ CallHoldSnapshots
    \/ CallReleaseSnapshots
    \/ CallDestroySnapshots
    \/ CallSet
    \/ CallHolds

SpecCalls == CallsInit /\ [][CallsNext]_vars

(***************************************************************************)
(* Seventh specification: pbs_build_repository_string on every combination *)
(* of set and unset arguments.                                             *)
(***************************************************************************)
Usernames == {"", "root@pam", "backup@pbs"}
TokenNames == {"", "tok"}
Servers == {"", "pbs", "10.0.0.5"}
Ports == {0, 443, 8007}
Datastores == {"", "store"}

RepositoryInit ==
    /\ pc = "pbs_build_repository_string"
    /\ dataset_plans = <<>>
    /\ timestamp_current = ""
    /\ snapshot_name = SnapName("", "")
    /\ cmds = <<>>
    /\ exit_code = -1
    /\ outcome = "running"
    /\ include_property = [d \in PoolDatasets |-> "false"]
    /\ dir_entries = NaturalDirs
    /\ snaps = EmptyPool
    /\ \E username \in Usernames, token_name \in TokenNames, server \in Servers, port \in Ports,
          datastore \in Datastores :
          args = [pbs_repository |-> "", pbs_username |-> username, pbs_token_name |-> token_name,
                  pbs_server |-> server, pbs_port |-> port, pbs_datastore |-> datastore]

BuildRepository ==
    /\ pc = "pbs_build_repository_string"
    /\ LET R == pbs_build_repository_string(Start, args.pbs_username, args.pbs_token_name, args.pbs_server,
                                            args.pbs_port, args.pbs_datastore)
       IN  /\ Continue(R, "returned")
           /\ args' = [args EXCEPT !.pbs_repository = R.ret]
    /\ UNCHANGED <<include_property, dir_entries, dataset_plans, timestamp_current, snapshot_name>>

RepositoryNext ==
    \/ BuildRepository

SpecRepository == RepositoryInit /\ [][RepositoryNext]_vars

(***************************************************************************)
(* Eighth specification: the run with the secret prompt of main() and a    *)
(* KeyboardInterrupt (SIGINT) arriving at the prompt, between two phases   *)
(* or at the question of remove_orphans=ask.  The log records where it     *)
(* arrived.                                                                *)
(***************************************************************************)
KeyboardInterrupt(at) == Cmd("KeyboardInterrupt", FALSE, at, {}, TRUE, 0)

InterruptInit ==
    /\ dataset_plans = <<>>
    /\ timestamp_current = ""
    /\ snapshot_name = SnapName("", "")
    /\ cmds = <<>>
    /\ exit_code = -1
    /\ outcome = "running"
    /\ include_property = [d \in PoolDatasets |-> IF d \in {TA, TAX} THEN "true" ELSE "false"]
    /\ dir_entries = NaturalDirs
    /\ snaps \in OldPools
    /\ \E execute \in BOOLEAN, resume \in BOOLEAN, orphans \in RemoveOrphansChoices, secret \in {"", "secret"} :
          /\ args = Args(<<T>>, execute, resume, TRUE, FALSE, orphans, TRUE, "store", secret)
          /\ pc = IF (execute \/ resume) /\ secret = "" THEN "prompt" ELSE "plan"

\* secure_prompt returns what the operator typed
Prompt ==
    /\ pc = "prompt"
    /\ \E typed \in {"", "secret"} : args' = [args EXCEPT !.pbs_secret = typed]
    /\ pc' = "plan"
    /\ UNCHANGED <<include_property, dir_entries, snaps, dataset_plans, timestamp_current, snapshot_name,
                   cmds, exit_code, outcome>>

\* except (EOFError, KeyboardInterrupt): pbs_secret = ""
InterruptPrompt ==
    /\ pc = "prompt"
    /\ args' = [args EXCEPT !.pbs_secret = ""]
    /\ cmds' = Append(cmds, KeyboardInterrupt("prompt"))
    /\ pc' = "plan"
    /\ UNCHANGED <<include_property, dir_entries, snaps, dataset_plans, timestamp_current, snapshot_name,
                   exit_code, outcome>>

\* the handler of __main__ with exit code 1
Interrupted_exit_1(R, at) ==
    /\ snaps' = R.snaps
    /\ cmds' = Append(R.cmds, KeyboardInterrupt(at))
    /\ pc' = "done"
    /\ exit_code' = 1
    /\ outcome' = "KeyboardInterrupt"

\* except KeyboardInterrupt in __main__: sys.exit(130)
Interrupted(R, at) ==
    /\ snaps' = R.snaps
    /\ cmds' = Append(R.cmds, KeyboardInterrupt(at))
    /\ pc' = "done"
    /\ exit_code' = 130
    /\ outcome' = "KeyboardInterrupt"

\* the interrupt arrives between two phases of main()
Interrupt ==
    /\ pc \notin {"prompt", "done"}
    /\ Interrupted(Start, pc)
    /\ UNCHANGED <<args, include_property, dir_entries, dataset_plans, timestamp_current, snapshot_name>>

\* the interrupt arrives at input() of remove_orphans=ask, after the scan
InterruptAsk ==
    /\ pc = "cleanup_orphans" /\ args.remove_orphans = "ask"
    /\ LET R == find_orphan_snapshots([Start EXCEPT !.ret = <<>>], dataset_plans, args.zfs_snapshot_prefix,
                                      timestamp_current)
       IN  R.st = "ok" /\ R.ret # <<>> /\ Interrupted(R, "ask")
    /\ UNCHANGED <<args, include_property, dir_entries, dataset_plans, timestamp_current, snapshot_name>>

InterruptNext ==
    \/ Prompt
    \/ InterruptPrompt
    \/ Interrupt
    \/ InterruptAsk
    \/ CollectDatasets
    \/ SelectTimestamp
    \/ CleanupOrphans
    \/ CreateSnapshots
    \/ MarkTimestamp
    \/ PbsStatus
    \/ PbsBackup
    \/ Teardown

SpecInterrupt == InterruptInit /\ [][InterruptNext]_vars

(***************************************************************************)
(* Properties.                                                             *)
(***************************************************************************)
Indices(c) == {i \in 1..Len(cmds) : cmds[i].cmd = c}
SnapshotCalls(rec) == {i \in Indices("zfs snapshot") : cmds[i].r = rec}

\* the datasets named on the recursive, and on the non-recursive, zfs snapshot
RecursiveArgs == {sn.ds : sn \in UNION {cmds[i].targets : i \in SnapshotCalls(TRUE)}}
NonRecursiveArgs == {sn.ds : sn \in UNION {cmds[i].targets : i \in SnapshotCalls(FALSE)}}

PlannedDatasets == {dataset_plans[k].dataset : k \in 1..Len(dataset_plans)}
RecursivePlanned == {dataset_plans[k].dataset : k \in {j \in 1..Len(dataset_plans) : dataset_plans[j].recursive_for_snapshot}}

\* the recursive plans that lie below no other recursive plan
MinimalRecursive ==
    {d \in RecursivePlanned : ~(\E e \in RecursivePlanned : StartsWith(d, e \o <<"/">>))}

\* the creation phase of a non-resume run has returned
CreationDone == ~args.resume /\ pc \in {"mark_timestamp", "pbs_status", "pbs_backup", "teardown"}

\* C1: no dataset that equals or lies below a minimized recursive root is an
\* argument of the non-recursive zfs snapshot of the run.
C1_NoCoveredInNonRecursive ==
    \A d \in NonRecursiveArgs : \A r \in MinimalRecursive : ~IsSelfOrDescendant(d, r)

\* a non-recursive plan lies below a recursive root, and both snapshot calls were issued
C1_Witness ==
    /\ SnapshotCalls(TRUE) # {} /\ SnapshotCalls(FALSE) # {}
    /\ \E k \in 1..Len(dataset_plans) :
          /\ ~dataset_plans[k].recursive_for_snapshot
          /\ \E r \in MinimalRecursive : IsSelfOrDescendant(dataset_plans[k].dataset, r)

\* C2: once creation has returned, every planned dataset is covered exactly
\* once: it is an argument of the single non-recursive zfs snapshot, or it
\* equals or lies below exactly one argument of the recursive one, never both
\* and never neither.
C2_CoveredExactlyOnce ==
    CreationDone =>
        /\ Cardinality(SnapshotCalls(FALSE)) <= 1
        /\ \A d \in PlannedDatasets :
              LET roots == {r \in RecursiveArgs : IsSelfOrDescendant(d, r)}
              IN  \/ d \in NonRecursiveArgs /\ roots = {}
                  \/ d \notin NonRecursiveArgs /\ Cardinality(roots) = 1

\* creation returned with nested recursive plans, a second recursive root and
\* a non-recursive call
C2_Witness ==
    /\ CreationDone
    /\ Cardinality(RecursiveArgs) = 2
    /\ NonRecursiveArgs # {}
    /\ RecursivePlanned # MinimalRecursive

\* C3: the archive specs of the backup command are exactly the plans with
\* process_self = true.
C3_SpecsAreProcessSelf ==
    \A i \in Indices("proxmox-backup-client backup") :
        Range(cmds[i].targets) =
            {dataset_plans[k].dataset : k \in {j \in 1..Len(dataset_plans) : dataset_plans[j].process_self}}

MutatingCommands == {"zfs snapshot", "zfs hold", "zfs release", "zfs destroy", "zfs set",
                     "proxmox-backup-client backup"}
ReadOnlyCommands == {"zfs list", "zfs get", "zfs holds", "proxmox-backup-client status"}

\* C4: in dry-run mode no mutating command reaches subprocess, each returns a
\* synthetic success, the read-only commands do run, and no step changes the
\* snapshots, holds and snapshot properties of the pool.
C4_DryRunPurity ==
    /\ [](~args.execute =>
            \A i \in 1..Len(cmds) :
                /\ cmds[i].cmd \in MutatingCommands => ~cmds[i].ran /\ cmds[i].rc = 0
                /\ cmds[i].cmd \in ReadOnlyCommands => cmds[i].ran)
    /\ [][~args.execute => snaps' = snaps]_vars

\* a dry run that has issued a snapshot, a release, a destroy and a backup
C4_Witness ==
    /\ ~args.execute
    /\ snaps # EmptyPool
    /\ \E i \in 1..Len(cmds) : cmds[i].cmd = "zfs release"
    /\ \E i \in 1..Len(cmds) : cmds[i].cmd = "zfs destroy"
    /\ \E i \in 1..Len(cmds) : cmds[i].cmd = "proxmox-backup-client backup"

\* the commands of the log, in order, without the planner's and the scans'
\* zfs list and zfs get
RECURSIVE PipelineCommands(_)
PipelineCommands(log) ==
    IF log = <<>> THEN <<>>
    ELSE (IF Head(log).cmd \in {"zfs list", "zfs get"} THEN <<>> ELSE <<Head(log).cmd>>)
         \o PipelineCommands(Tail(log))

\* a dry run of the full pipeline (not resumed, not --remove-orphans=only, the
\* PBS options complete), with holding, of a tree whose only plan is one
\* dataset in mode true
DryRunOfOneTrueDataset ==
    /\ ~args.execute /\ ~args.resume /\ args.hold_snapshots
    /\ args.remove_orphans # "only" /\ args.pbs_datastore # "" /\ args.pbs_secret # ""
    /\ Len(dataset_plans) = 1 /\ dataset_plans[1].include_mode = "true"

\* C5: a dry run of the full pipeline on a tree with one dataset in mode true
\* passes through snapshot, hold, set, PBS status, PBS backup with --dry-run,
\* zfs holds and zfs destroy, and exits with code 0 (unless PBS itself
\* answers with an error).
C5_DryRunCompletes ==
    (DryRunOfOneTrueDataset /\ pc = "done" /\ outcome \notin {"PbsAccessError", "PbsBackupFailed"}) =>
        /\ exit_code = 0
        /\ PipelineCommands(cmds) = <<"zfs snapshot", "zfs hold", "zfs set", "proxmox-backup-client status",
                                      "proxmox-backup-client backup", "zfs holds", "zfs destroy">>

\* the reasons for which a snapshot may be destroyed, on its holds before the step
DestroyJustified(sn) ==
    \/ sn \in DOMAIN snaps /\ snaps[sn].holds = {}
    \/ sn \in DOMAIN snaps /\ snaps[sn].holds = {args.zfs_hold_name} /\ args.hold_snapshots
    \/ pc = "cleanup_orphans" /\ args.remove_orphans = "force-release"

\* C6: a zfs destroy is issued for a snapshot, and a snapshot leaves the pool,
\* only if it had no holds, or its holds were exactly the configured hold name
\* and holding is enabled, or the step is the orphan removal of
\* --remove-orphans=force-release.
C6_DestroyOnlyIfJustified ==
    [][/\ \A i \in (Len(cmds) + 1)..Len(cmds') :
             cmds'[i].cmd = "zfs destroy" => \A sn \in cmds'[i].targets : DestroyJustified(sn)
       /\ \A sn \in DOMAIN snaps \ DOMAIN snaps' : DestroyJustified(sn)]_vars

\* an execute run without force-release released a hold of a snapshot and
\* then destroyed it
C6_Witness ==
    /\ args.execute /\ args.remove_orphans # "force-release"
    /\ \E i \in Indices("zfs release"), j \in Indices("zfs destroy") :
          i < j /\ cmds[j].ran /\ cmds[j].targets \subseteq cmds[i].targets

\* C7: every zfs hold uses the configured hold name, and a zfs release with
\* another tag is issued only by the orphan removal of
\* --remove-orphans=force-release.
C7_OnlyOurHoldName ==
    [][\A i \in (Len(cmds) + 1)..Len(cmds') :
          /\ cmds'[i].cmd = "zfs hold" => cmds'[i].tag = args.zfs_hold_name
          /\ (cmds'[i].cmd = "zfs release" /\ cmds'[i].tag # args.zfs_hold_name) =>
                (pc = "cleanup_orphans" /\ args.remove_orphans = "force-release")]_vars

\* a run released a foreign hold of an orphan, later held its own snapshots
\* and released them at teardown
C7_Witness ==
    /\ \E i \in Indices("zfs release") : cmds[i].tag = ForeignHoldName
    /\ \E i \in Indices("zfs hold"), j \in Indices("zfs release") :
          i < j /\ cmds[j].tag = args.zfs_hold_name /\ cmds[i].targets = cmds[j].targets

\* C8: after the stamping step of an execute run every snapshot the run
\* created, also on descendants without a plan, carries timestamp_current.
C8_AllCreatedStamped ==
    (args.execute /\ ~args.resume /\ pc \in {"pbs_status", "pbs_backup", "teardown"}) =>
        \A sn \in DOMAIN snaps : sn.name = snapshot_name => snaps[sn].ts = timestamp_current

\* the datasets whose include property is false, empty (missing) or unknown
FalseDatasets == {d \in PoolDatasets : include_property[d] \in {"false", "", "yes"}}

\* the datasets named by the snapshot arguments of the zfs commands of the log
NamedInZfsCommands ==
    {sn.ds : sn \in UNION {cmds[i].targets :
        i \in {j \in 1..Len(cmds) : cmds[j].cmd \in {"zfs snapshot", "zfs hold", "zfs set",
                                                     "zfs release", "zfs destroy", "zfs holds"}}}}

ArchivedDatasets == UNION {Range(cmds[i].targets) : i \in Indices("proxmox-backup-client backup")}

\* C9 as stated: a dataset in mode false is in no plan, in no snapshot list,
\* is not snapshotted by the run, also below a recursive root, and has no
\* archive spec.
C9_FalseNeverSnapshotted ==
    \A d \in FalseDatasets :
        /\ d \notin PlannedDatasets
        /\ d \notin NamedInZfsCommands
        /\ d \notin ArchivedDatasets
        /\ ~args.resume => Snap(d, snapshot_name) \notin DOMAIN snaps

\* C9 amended: a dataset in mode false is in no plan, is no argument of any
\* zfs snapshot, hold, set, holds, release or destroy of the run and has no
\* archive spec.
C9_FalseNeverNamed ==
    \A d \in FalseDatasets :
        /\ d \notin PlannedDatasets
        /\ d \notin NamedInZfsCommands
        /\ d \notin ArchivedDatasets

\* an execute run has stamped and archived its plans while a dataset with an
\* unknown include value, below a recursive root, got the run's snapshot
C9_Witness ==
    /\ args.execute /\ ~args.resume
    /\ ArchivedDatasets # {}
    /\ \E d \in PoolDatasets : include_property[d] = "yes" /\ Snap(d, snapshot_name) \in DOMAIN snaps

\* C10: in execute mode, once the backup has returned success, the run ends
\* with exit code 0.
C10_TeardownExitsOk ==
    (/\ args.execute /\ pc = "done"
     /\ \E i \in Indices("proxmox-backup-client backup") : cmds[i].ran /\ cmds[i].rc = 0)
    => exit_code = 0

\* the commands --remove-orphans=only must never issue
CreationAndBackupCommands ==
    {"zfs snapshot", "zfs hold", "zfs set", "proxmox-backup-client status", "proxmox-backup-client backup"}

OnlyWithPlans == args.remove_orphans = "only" /\ dataset_plans # <<>>

\* C11 as stated: with remove_orphans=only and a non-empty plan list the run
\* ends with exit code 0 and issues no zfs snapshot, hold, set, PBS status or
\* PBS backup.
C11_OnlyAlwaysExitsOk ==
    (OnlyWithPlans /\ pc = "done") =>
        /\ exit_code = 0
        /\ \A i \in 1..Len(cmds) : cmds[i].cmd \notin CreationAndBackupCommands

\* C11 amended: with remove_orphans=only and a non-empty plan list the run
\* never issues zfs snapshot, hold, set, PBS status or PBS backup, and it ends
\* either by returning 0 from orphan cleanup or, under --resume with no
\* timestamp found, by returning 1 from timestamp selection.
C11_OnlyCleansThenExits ==
    /\ [](OnlyWithPlans => \A i \in 1..Len(cmds) : cmds[i].cmd \notin CreationAndBackupCommands)
    /\ [][(OnlyWithPlans /\ pc' = "done") =>
            \/ pc = "cleanup_orphans" /\ exit_code' = 0
            \/ pc = "select_timestamp" /\ args.resume /\ timestamp_current' = "" /\ exit_code' = 1]_vars

\* an execute run under remove_orphans=only destroyed an orphan and returned 0
C11_Witness ==
    /\ OnlyWithPlans /\ args.execute /\ pc = "done" /\ exit_code = 0
    /\ \E i \in Indices("zfs destroy") : cmds[i].ran /\ cmds[i].targets \cap DOMAIN snaps = {}

\* the prefix-matching snapshots of the planned datasets that carry a decimal
\* timestamp property or a decimal name suffix
ResumeCandidates ==
    {sn \in DOMAIN snaps :
        /\ sn.ds \in PlannedDatasets
        /\ sn.name.pre = args.zfs_snapshot_prefix
        /\ (snaps[sn].ts \in DOMAIN IntOf \/ sn.name.suf \in DOMAIN IntOf)}

\* C12: with --resume and no snapshot of a planned dataset yielding an
\* effective timestamp, timestamp selection ends the run with exit code 1:
\* orphan cleanup is not entered, the pool is unchanged and only zfs list and
\* zfs get have been issued.
C12_ResumeWithoutTimestampFails ==
    [][(pc = "select_timestamp" /\ args.resume /\ ResumeCandidates = {}) =>
          /\ pc' = "done" /\ exit_code' = 1
          /\ snaps' = snaps
          /\ \A i \in 1..Len(cmds') : cmds'[i].cmd \in {"zfs list", "zfs get"}]_vars

\* a resume run ended with code 1 although a planned dataset has a snapshot
\* with the prefix: it has neither a decimal property nor a decimal suffix
C12_Witness ==
    /\ args.resume /\ pc = "done" /\ exit_code = 1 /\ timestamp_current = ""
    /\ ResumeCandidates = {}
    /\ \E sn \in DOMAIN snaps : sn.ds \in PlannedDatasets /\ sn.name.pre = args.zfs_snapshot_prefix

\* C13: a resume run issues no zfs snapshot, zfs hold or zfs set; once the
\* timestamp is found snapshot_name is the prefix followed by it, and orphan
\* cleanup is followed by the PBS status probe (or by the end of the run:
\* remove_orphans=only, or a failure of the cleanup).
C13_ResumeSkipsCreation ==
    /\ [](args.resume =>
            /\ \A i \in 1..Len(cmds) : cmds[i].cmd \notin {"zfs snapshot", "zfs hold", "zfs set"}
            /\ pc \notin {"create_snapshots", "mark_timestamp"}
            /\ timestamp_current # "" => snapshot_name = SnapName(args.zfs_snapshot_prefix, timestamp_current))
    /\ [][(args.resume /\ pc = "cleanup_orphans") =>
            \/ pc' = "pbs_status"
            \/ pc' = "done" /\ (args.remove_orphans = "only" \/ exit_code' = 1)]_vars

\* a resume run with a timestamp found has issued the PBS status probe
C13_Witness ==
    /\ args.resume /\ timestamp_current # ""
    /\ Indices("proxmox-backup-client status") # {}
    /\ pc = "pbs_backup"

\* the effective timestamp of a resume candidate: the property when it is
\* decimal, else the name suffix
ResumeValue(sn) == IF snaps[sn].ts \in DOMAIN IntOf THEN snaps[sn].ts ELSE sn.name.suf

\* C14: the timestamp a resume run selects is the effective timestamp of a
\* prefix-matching snapshot of a planned dataset and is, as an integer, not
\* smaller than any other; with no candidate none is selected.
C14_ResumeTimestampIsMaximum ==
    [][(pc = "select_timestamp" /\ args.resume) =>
          IF ResumeCandidates = {}
          THEN timestamp_current' = "" /\ pc' = "done"
          ELSE /\ timestamp_current' \in {ResumeValue(sn) : sn \in ResumeCandidates}
               /\ \A sn \in ResumeCandidates : IntOf[timestamp_current'] >= IntOf[ResumeValue(sn)]]_vars

\* a timestamp was selected among candidates of two planned datasets, one by
\* its property and one by its name suffix, with different values
C14_Witness ==
    /\ args.resume /\ pc = "cleanup_orphans" /\ timestamp_current # ""
    /\ \E a, b \in ResumeCandidates :
          /\ a.ds # b.ds
          /\ snaps[a].ts \in DOMAIN IntOf /\ snaps[b].ts \notin DOMAIN IntOf
          /\ IntOf[ResumeValue(a)] # IntOf[ResumeValue(b)]

\* the effective timestamp of a snapshot: the property when it is decimal,
\* else the name suffix when that is decimal, else none
OrphanValue(sn) ==
    IF snaps[sn].ts \in DOMAIN IntOf THEN snaps[sn].ts
    ELSE IF sn.name.suf \in DOMAIN IntOf THEN sn.name.suf
    ELSE ""

ExpectedOrphans ==
    {sn \in DOMAIN snaps :
        /\ sn.ds \in PlannedDatasets
        /\ sn.name.pre = args.zfs_snapshot_prefix
        /\ OrphanValue(sn) # timestamp_current}

\* C15: find_orphan_snapshots flags exactly the snapshots of planned datasets
\* whose name starts with the prefix and whose effective timestamp differs
\* from timestamp_current, those without any decimal timestamp included; under
\* force-release exactly these leave the pool.
C15_OrphansAreTheMismatching ==
    /\ [](pc = "cleanup_orphans" =>
            Range(find_orphan_snapshots([Start EXCEPT !.ret = <<>>], dataset_plans,
                                        args.zfs_snapshot_prefix, timestamp_current).ret) = ExpectedOrphans)
    /\ [][(pc = "cleanup_orphans" /\ args.remove_orphans = "force-release") =>
            DOMAIN snaps \ DOMAIN snaps' = ExpectedOrphans]_vars

\* orphan cleanup of a resume run destroyed a snapshot without any decimal
\* timestamp and kept the one whose name suffix is the resumed timestamp
C15_Witness ==
    /\ args.resume /\ pc = "pbs_status" /\ args.remove_orphans = "force-release"
    /\ \E i \in Indices("zfs destroy") :
          cmds[i].ran /\ \E sn \in cmds[i].targets : sn.name.suf = "x" /\ sn \notin DOMAIN snaps
    /\ \E sn \in DOMAIN snaps :
          /\ sn.ds \in PlannedDatasets /\ sn.name.pre = args.zfs_snapshot_prefix
          /\ snaps[sn].ts \notin DOMAIN IntOf /\ sn.name.suf = timestamp_current

\* C16: every zfs snapshot -r of the run precedes the zfs snapshot without -r.
C16_RecursiveBeforePlain ==
    \A i \in SnapshotCalls(TRUE), j \in SnapshotCalls(FALSE) : i < j

\* an execute run issued both calls and both created their snapshots
C16_Witness ==
    /\ args.execute
    /\ \E i \in SnapshotCalls(TRUE), j \in SnapshotCalls(FALSE) :
          /\ cmds[i].ran /\ cmds[i].rc = 0
          /\ cmds[j].ran /\ cmds[j].rc = 0
          /\ cmds[j].targets \subseteq DOMAIN snaps

CreationCalls == Indices("zfs snapshot") \cup Indices("zfs hold")
PbsCalls == Indices("proxmox-backup-client status") \cup Indices("proxmox-backup-client backup")

\* C17: in a non-resume run the stamping zfs set follows every zfs snapshot
\* and zfs hold of the run, all of which returned 0, and precedes the PBS
\* status probe and the PBS backup; after a failed creation neither a zfs set
\* nor a PBS backup is issued.
C17_StampAfterCreationBeforeBackup ==
    ~args.resume =>
        /\ \A k \in Indices("zfs set") :
              /\ Indices("zfs snapshot") # {}
              /\ \A i \in CreationCalls : i < k /\ cmds[i].rc = 0
              /\ \A j \in PbsCalls : k < j
        /\ (\E i \in CreationCalls : cmds[i].rc # 0) =>
              /\ Indices("zfs set") = {}
              /\ Indices("proxmox-backup-client backup") = {}

\* an execute run created and held its snapshots, stamped them and then
\* submitted the backup
C17_Witness ==
    /\ args.execute /\ ~args.resume
    /\ Indices("zfs hold") # {}
    /\ \E k \in Indices("zfs set"), j \in Indices("proxmox-backup-client backup") :
          cmds[k].ran /\ k < j /\ cmds[j].ran

\* C18: a PBS backup is submitted only after a PBS status probe of the run
\* that returned 0; a probe that returns nonzero is the last command of the
\* run, which ends with exit code 1: no backup, no zfs release and no zfs
\* destroy follow it.
C18_BackupOnlyAfterStatusOk ==
    /\ \A j \in Indices("proxmox-backup-client backup") :
          \E i \in Indices("proxmox-backup-client status") : i < j /\ cmds[i].ran /\ cmds[i].rc = 0
    /\ \A i \in Indices("proxmox-backup-client status") :
          cmds[i].rc # 0 =>
              /\ pc = "done" /\ exit_code = 1
              /\ \A j \in (i + 1)..Len(cmds) :
                    cmds[j].cmd \notin {"proxmox-backup-client backup", "zfs release", "zfs destroy"}

\* the probe of an execute run failed: the run ended with code 1 and left
\* its held snapshots in the pool
C18_Witness ==
    /\ args.execute /\ pc = "done" /\ exit_code = 1
    /\ \E i \in Indices("proxmox-backup-client status") : cmds[i].ran /\ cmds[i].rc # 0
    /\ \E sn \in DOMAIN snaps : sn.name = snapshot_name /\ args.zfs_hold_name \in snaps[sn].holds

\* C19: when planning returns an empty plan list the run ends at once with
\* exit code 0: no timestamp is selected and the only commands issued are
\* the zfs list -r and zfs get of the planner, whatever --resume and
\* --remove-orphans are.
C19_NoPlansExitsOk ==
    (pc # "plan" /\ dataset_plans = <<>> /\ outcome \in {"running", "return"}) =>
        /\ pc = "done" /\ exit_code = 0
        /\ timestamp_current = "" /\ snapshot_name = SnapName("", "")
        /\ \A i \in 1..Len(cmds) :
              \/ cmds[i].cmd = "zfs list" /\ cmds[i].r
              \/ cmds[i].cmd = "zfs get" /\ cmds[i].targets \subseteq PoolDatasets

\* an execute run with --resume and --remove-orphans=force-release selected
\* nothing and returned 0 while a snapshot with the prefix is in the pool
C19_Witness ==
    /\ pc = "done" /\ exit_code = 0 /\ dataset_plans = <<>>
    /\ args.execute /\ args.resume /\ args.remove_orphans = "force-release"
    /\ \E sn \in DOMAIN snaps : sn.name.pre = args.zfs_snapshot_prefix

\* the argument create_and_hold_snapshots passes to _minimize_recursive_roots
RecursiveInput == PlanDatasets(dataset_plans, TRUE)

\* C20: _minimize_recursive_roots applied to its own result returns it
\* unchanged, and it returns the same list for every list with the same
\* elements, in any order and with any repetitions.
C20_MinimizeIdempotentOrderInsensitive ==
    LET S == RecursiveInput
        M == _minimize_recursive_roots(S)
    IN  /\ _minimize_recursive_roots(M) = M
        /\ \A S2 \in DatasetLists : Range(S2) = Range(S) => _minimize_recursive_roots(S2) = M

\* creation ran over a list that names a dataset twice and a child before
\* its parent, and snapshotted only the parent
C20_Witness ==
    /\ pc = "mark_timestamp" /\ args.execute
    /\ \E i, j, k \in 1..Len(RecursiveInput) :
          /\ i < j /\ j < k
          /\ RecursiveInput[i] = RecursiveInput[k]
          /\ StartsWith(RecursiveInput[i], RecursiveInput[j] \o <<"/">>)
    /\ Len(_minimize_recursive_roots(RecursiveInput)) = 1
    /\ RecursiveArgs = Range(_minimize_recursive_roots(RecursiveInput))

\* C21: in every plan recursive_for_snapshot is true iff the include mode is
\* recursive or children, process_self implies that the mode is true or
\* recursive, and a plan of mode true or recursive has process_self off only
\* under --exclude-empty-parents.
C21_PlanFlagsFollowMode ==
    \A k \in 1..Len(dataset_plans) :
        LET p == dataset_plans[k]
        IN  /\ p.include_mode \in {"true", "recursive", "children"}
            /\ p.recursive_for_snapshot <=> p.include_mode \in {"recursive", "children"}
            /\ p.process_self => p.include_mode \in {"true", "recursive"}
            /\ (p.include_mode \in {"true", "recursive"} /\ ~p.process_self) => args.exclude_empty_parents

\* the plan list holds an empty parent of mode recursive with process_self
\* off, a plan of mode children and a plan with process_self on
C21_Witness ==
    /\ \E k \in 1..Len(dataset_plans) :
          dataset_plans[k].include_mode = "recursive" /\ ~dataset_plans[k].process_self
    /\ \E k \in 1..Len(dataset_plans) : dataset_plans[k].include_mode = "children"
    /\ \E k \in 1..Len(dataset_plans) : dataset_plans[k].process_self

\* the log entries the step adds that name the snapshot
IssuedFor(c, sn) == {i \in (Len(cmds) + 1)..Len(cmds') : cmds'[i].cmd = c /\ sn \in cmds'[i].targets}

\* C22: under remove_orphans=force-release the cleanup step issues, for
\* every orphan, a zfs release for each hold tag it carries and then a zfs
\* destroy; an execute run removes it from the pool; when it carries a tag
\* other than the configured hold name a warning naming that tag is logged
\* before the releases.
C22_ForceReleaseDestroysAll ==
    [][(pc = "cleanup_orphans" /\ args.remove_orphans = "force-release") =>
          \A sn \in ExpectedOrphans :
              /\ IssuedFor("zfs destroy", sn) # {}
              /\ \A h \in snaps[sn].holds :
                    \E i \in IssuedFor("zfs release", sn) :
                        /\ cmds'[i].tag = h
                        /\ \A j \in IssuedFor("zfs destroy", sn) : i < j
              /\ args.execute => sn \notin DOMAIN snaps'
              /\ \A h \in snaps[sn].holds \ {args.zfs_hold_name} :
                    \E w \in IssuedFor("logging.warning", sn) :
                        /\ cmds'[w].tag = "force release" /\ h \in cmds'[w].holds
                        /\ \A i \in IssuedFor("zfs release", sn) : w < i]_vars

\* an execute run under force-release released two tags of an orphan, one of
\* them foreign, and destroyed it
C22_Witness ==
    /\ args.execute /\ args.remove_orphans = "force-release" /\ pc = "create_snapshots"
    /\ \E i, j \in Indices("zfs release"), k \in Indices("zfs destroy") :
          /\ cmds[i].tag = ForeignHoldName /\ cmds[j].tag = args.zfs_hold_name
          /\ i < k /\ j < k
          /\ cmds[k].targets \subseteq cmds[i].targets \cap cmds[j].targets
          /\ cmds[k].targets \cap DOMAIN snaps = {}

\* C23: under remove_orphans=true an orphan carrying a tag other than the
\* configured hold name gets no zfs release and no zfs destroy: it stays in
\* the pool with its holds and a skip warning is logged for it; every orphan
\* whose holds are releasable (none, or only the configured tag with holding
\* enabled) is still destroyed, and the run goes on to snapshot creation.
C23_ForeignHoldSkipped ==
    [][(pc = "cleanup_orphans" /\ args.remove_orphans = "true") =>
          /\ pc' = "create_snapshots"
          /\ \A sn \in ExpectedOrphans :
                IF snaps[sn].holds \ {args.zfs_hold_name} # {}
                THEN /\ IssuedFor("zfs release", sn) = {}
                     /\ IssuedFor("zfs destroy", sn) = {}
                     /\ sn \in DOMAIN snaps' /\ snaps'[sn] = snaps[sn]
                     /\ \E w \in IssuedFor("logging.warning", sn) : cmds'[w].tag = "skip"
                ELSE (snaps[sn].holds = {} \/ args.hold_snapshots) =>
                        /\ IssuedFor("zfs destroy", sn) # {}
                        /\ args.execute => sn \notin DOMAIN snaps']_vars

\* an execute run under remove_orphans=true skipped an orphan with a foreign
\* tag, destroyed another orphan and went on to snapshot creation
C23_Witness ==
    /\ args.execute /\ args.remove_orphans = "true" /\ pc = "create_snapshots"
    /\ \E w \in Indices("logging.warning"), k \in Indices("zfs destroy") :
          /\ cmds[w].tag = "skip" /\ ForeignHoldName \in cmds[w].holds
          /\ cmds[w].targets \subseteq DOMAIN snaps
          /\ cmds[k].targets \cap DOMAIN snaps = {}
          /\ cmds[k].targets \cap cmds[w].targets = {}

C25_FalseLeavesOrphans ==
    [][(pc = "cleanup_orphans" /\ args.remove_orphans = "false") =>
          /\ \A i \in (Len(cmds) + 1)..Len(cmds') : cmds'[i].cmd \notin {"zfs release", "zfs destroy"}
          /\ snaps' = snaps
          /\ pc' = "create_snapshots"]_vars

\* an execute run under remove_orphans=false found orphans, one of them
\* without any hold, and went on to snapshot creation with the orphans in place
C25_Witness ==
    /\ args.execute /\ args.remove_orphans = "false" /\ pc = "create_snapshots"
    /\ \E sn \in ExpectedOrphans : snaps[sn].holds = {}
    /\ Indices("zfs list") # {}
    /\ Indices("zfs destroy") = {}

\* C26: when a name of the list lacks '@', zfs_destroy_snapshots ends the run
\* with exit code 1 without issuing any command: no zfs destroy appears, also
\* not for the well-formed names of the same list, and the pool is unchanged.
C26_DestroyRefusesBareNames ==
    [][(pc = "zfs_destroy_snapshots" /\ \E x \in args.snapshots : ~HasAt(x)) =>
          /\ pc' = "done" /\ exit_code' = 1 /\ outcome' = "NotASnapshot"
          /\ cmds' = cmds
          /\ snaps' = snaps]_vars

\* an execute call as root was refused although the list also held an
\* existing snapshot without holds
C26_Witness ==
    /\ outcome = "NotASnapshot" /\ exit_code = 1 /\ args.execute /\ args.are_we_root
    /\ \E x \in args.snapshots : HasAt(x) /\ x \in DOMAIN snaps /\ snaps[x].holds = {}
    /\ \E x \in args.snapshots : ~HasAt(x)

\* C27: when every queried snapshot exists, zfs_holds returns normally with a
\* map that has exactly the queried snapshots as keys, each with the tags it
\* carries; the recursive query, whose output also names snapshots of
\* descendants, included.
C27_HoldsAlwaysReturnsMap ==
    [][(pc = "zfs_holds" /\ args.snapshots \subseteq DOMAIN snaps) =>
          /\ pc' = "returned"
          /\ LET holds_by_snapshot == zfs_holds(Start, args.snapshots, args.recursive).ret
             IN  /\ DOMAIN holds_by_snapshot = args.snapshots
                 /\ \A sn \in args.snapshots : holds_by_snapshot[sn] = snaps[sn].holds]_vars

ZfsMutatingCommands == MutatingCommands \ {"proxmox-backup-client backup"}

\* the names check_zfs_datasets_exist probes after the failed command: the
\* datasets for zfs snapshot, the snapshots otherwise
ProbedBy(c) == IF c.cmd = "zfs snapshot" THEN {sn.ds : sn \in c.targets} ELSE c.targets

ProbeFinds(c, x) == IF c.cmd = "zfs snapshot" THEN x \in PoolDatasets ELSE x \in DOMAIN snaps'

\* C28: a zfs snapshot, hold, release, destroy or set that exits nonzero is
\* the last mutating command of the run; it is followed by the existence
\* probe of its targets and the run ends with exit code 1, as DatasetMissing
\* when a target is not found, else as a privilege error when not root, else
\* with the process error.
C28_FailureClassifiedInOrder ==
    [][\A i \in (Len(cmds) + 1)..Len(cmds') :
          (cmds'[i].cmd \in ZfsMutatingCommands /\ cmds'[i].rc # 0) =>
              /\ i + 1 = Len(cmds')
              /\ cmds'[i + 1].cmd = "zfs list" /\ cmds'[i + 1].targets = ProbedBy(cmds'[i])
              /\ pc' = "done" /\ exit_code' = 1
              /\ outcome' = IF \E x \in ProbedBy(cmds'[i]) : ~ProbeFinds(cmds'[i], x) THEN "DatasetMissing"
                            ELSE IF ~args.are_we_root THEN "Privilege"
                            ELSE "CalledProcessError"]_vars

\* a call without root privileges on a missing target ended as DatasetMissing
\* after the probe
C28_Witness ==
    /\ ~args.are_we_root /\ outcome = "DatasetMissing" /\ exit_code = 1
    /\ Len(cmds) >= 2
    /\ cmds[Len(cmds) - 1].cmd \in ZfsMutatingCommands /\ cmds[Len(cmds) - 1].rc # 0
    /\ cmds[Len(cmds)].cmd = "zfs list"

\* the repository string of the format [username[!token]@][server[:port]:]datastore
FormatOf(username, token_name, server, port, datastore) ==
    (IF username # "" THEN username \o (IF token_name # "" THEN "!" \o token_name ELSE "") \o "@" ELSE "")
    \o (IF server # "" THEN server \o (IF port # 0 THEN ":" \o ToString(port) ELSE "") \o ":" ELSE "")
    \o datastore

\* C29: pbs_build_repository_string returns, for every combination of set and
\* unset arguments with a datastore, the string
\* [username[!token]@][server[:port]:]datastore, the token only with a
\* username and the port only with a server; without a datastore it raises.
C29_RepositoryFormat ==
    pc \in {"returned", "done"} =>
        IF args.pbs_datastore = ""
        THEN pc = "done" /\ outcome = "ValueError"
        ELSE /\ pc = "returned"
             /\ args.pbs_repository = FormatOf(args.pbs_username, args.pbs_token_name, args.pbs_server,
                                               args.pbs_port, args.pbs_datastore)

\* C30 as stated: a run in which a KeyboardInterrupt arrived, at whatever
\* point, ends with exit code 130 and issues no zfs release and no zfs
\* destroy after it.
C30_InterruptAlwaysExits130 ==
    (pc = "done" /\ Indices("KeyboardInterrupt") # {}) =>
        /\ exit_code = 130
        /\ \A i \in Indices("KeyboardInterrupt"), j \in Indices("zfs release") \cup Indices("zfs destroy") : j < i

\* C30: a KeyboardInterrupt arriving anywhere but at the secret prompt is the
\* last entry of the log and ends the run with exit code 130, so that no zfs
\* release or destroy follows it and the pool stays as it was; one arriving at
\* the secret prompt is taken as an empty secret and the run goes on.
C30_InterruptExits130OutsidePrompt ==
    /\ [](\A i \in Indices("KeyboardInterrupt") :
             IF cmds[i].tag = "prompt"
             THEN i = 1 /\ args.pbs_secret = ""
             ELSE i = Len(cmds) /\ pc = "done" /\ exit_code = 130)
    /\ [][(Indices("KeyboardInterrupt")' # Indices("KeyboardInterrupt")) =>
             /\ snaps' = snaps
             /\ pc = "prompt" => pc' = "plan"]_vars

\* an execute run was interrupted after it had created and held its
\* snapshots: it ended with exit code 130 and the held snapshots are there
C30_Witness ==
    /\ pc = "done" /\ exit_code = 130 /\ args.execute
    /\ cmds[Len(cmds)].cmd = "KeyboardInterrupt" /\ cmds[Len(cmds)].tag = "pbs_status"
    /\ \E sn \in DOMAIN snaps : sn.name = snapshot_name /\ args.zfs_hold_name \in snaps[sn].holds

\* C31: in a dry run every proxmox-backup-client backup command carries
\* --dry-run and reaches subprocess, instead of being answered by run_cmd's
\* synthetic success.
C31_DryRunBackupInvoked ==
    \A i \in Indices("proxmox-backup-client backup") :
        ~args.execute => (cmds[i].dry_flag /\ cmds[i].ran)

\* C32: a proxmox-backup-client backup that returns nonzero is the last
\* command of the run: the run ends with a non-zero exit code, no zfs holds,
\* release or destroy follows, and the snapshot of every planned dataset is
\* still in the pool with the holds it had.
C32_BackupFailureSkipsTeardown ==
    /\ [](\A i \in Indices("proxmox-backup-client backup") :
             cmds[i].rc # 0 =>
                 /\ i = Len(cmds) /\ pc = "done" /\ exit_code = 1 /\ outcome = "PbsBackupFailed"
                 /\ \A d \in PlannedDatasets : Snap(d, snapshot_name) \in DOMAIN snaps)
    /\ [][(\E i \in (Len(cmds) + 1)..Len(cmds') :
               cmds'[i].cmd = "proxmox-backup-client backup" /\ cmds'[i].rc # 0) => snaps' = snaps]_vars

\* an execute run whose backup failed ended with its held snapshot in place
C32_Witness ==
    /\ args.execute /\ ~args.resume /\ args.hold_snapshots /\ pc = "done" /\ exit_code = 1
    /\ cmds[Len(cmds)].cmd = "proxmox-backup-client backup" /\ cmds[Len(cmds)].rc # 0
    /\ Indices("zfs hold") # {}
    /\ \E d \in PlannedDatasets : /\ Snap(d, snapshot_name) \in DOMAIN snaps
                                  /\ args.zfs_hold_name \in snaps[Snap(d, snapshot_name)].holds

\* C33: a plan with mode true or recursive has process_self off exactly when
\* exclude_empty_parents is on, the dataset has a child dataset, its
\* mountpoint is readable and every immediate entry of the mountpoint is the
\* mountpoint of a child dataset; with the flag off, without a child or with
\* an unreadable mountpoint process_self is on.
C33_EmptyParentRule ==
    \A k \in 1..Len(dataset_plans) :
        LET p == dataset_plans[k]
            dir == dir_entries[p.mountpoint]
            child_mounts == ChildMountsOf(p.dataset)
        IN  p.include_mode \in {"true", "recursive"} =>
               (~p.process_self <=>
                   /\ args.exclude_empty_parents
                   /\ child_mounts # {}
                   /\ dir.readable
                   /\ dir.entries \subseteq child_mounts)

\* with the flag on, one parent whose mountpoint holds only child mounts was
\* turned off while a parent with an unreadable mountpoint was kept
C33_Witness ==
    /\ args.exclude_empty_parents
    /\ \E j, k \in 1..Len(dataset_plans) :
          /\ dataset_plans[j].include_mode \in {"true", "recursive"} /\ ~dataset_plans[j].process_self
          /\ dir_entries[dataset_plans[j].mountpoint] = DirOnlyMounts(dataset_plans[j].dataset)
          /\ dataset_plans[k].include_mode \in {"true", "recursive"} /\ dataset_plans[k].process_self
          /\ ~dir_entries[dataset_plans[k].mountpoint].readable
          /\ ChildMountsOf(dataset_plans[k].dataset) # {}

\* C34: with holding enabled every zfs snapshot that returned 0 is followed
\* at once, before any other zfs snapshot and before the stamping zfs set, by
\* a zfs hold with the configured hold name, the same snapshots and the same
\* -r flag, and there is no other zfs hold; a zfs snapshot that failed is
\* followed by no hold, snapshot or set at all.  With holding disabled no zfs
\* hold is issued.
C34_HoldMirrorsSnapshot ==
    IF args.hold_snapshots
    THEN /\ \A i \in Indices("zfs snapshot") :
               IF cmds[i].rc = 0
               THEN /\ i + 1 \in Indices("zfs hold")
                    /\ cmds[i + 1].tag = args.zfs_hold_name
                    /\ cmds[i + 1].targets = cmds[i].targets
                    /\ cmds[i + 1].r = cmds[i].r
                    /\ cmds[i + 1].ran = cmds[i].ran
               ELSE \A j \in Indices("zfs hold") \cup Indices("zfs snapshot") \cup Indices("zfs set") : j <= i
         /\ \A j \in Indices("zfs hold") : j - 1 \in Indices("zfs snapshot")
    ELSE Indices("zfs hold") = {}

\* an execute run with holding enabled issued a recursive and a plain zfs
\* snapshot, each followed by its hold, and the holds are in the pool
C34_Witness ==
    /\ args.execute /\ args.hold_snapshots
    /\ \E i \in SnapshotCalls(TRUE), j \in SnapshotCalls(FALSE) :
          /\ i + 1 \in Indices("zfs hold") /\ cmds[i + 1].r /\ cmds[i + 1].rc = 0
          /\ j + 1 \in Indices("zfs hold") /\ ~cmds[j + 1].r /\ cmds[j + 1].rc = 0
    /\ Indices("zfs set") # {}
    /\ \A sn \in DOMAIN snaps : sn.name = snapshot_name => args.zfs_hold_name \in snaps[sn].holds

\* two log entries of the same call of zfs_release_and_destroy_snapshots: no
\* zfs holds, with which every call begins, lies between them
SameCall(i, j) ==
    LET lo == IF i < j THEN i ELSE j
        hi == IF i < j THEN j ELSE i
    IN  \A k \in (lo + 1)..hi : cmds[k].cmd # "zfs holds"

\* C35: within one call of zfs_release_and_destroy_snapshots every zfs
\* release precedes every zfs destroy; a snapshot that carried holds is
\* destroyed only after a release was issued for each of its tags; a snapshot
\* classified as skipped gets no release and no destroy and stays as it was.
C35_ReleaseBeforeDestroy ==
    /\ [](\A i \in Indices("zfs release"), j \in Indices("zfs destroy") : SameCall(i, j) => i < j)
    /\ [][\A sn \in DOMAIN snaps :
             /\ \A j \in IssuedFor("zfs destroy", sn), h \in snaps[sn].holds :
                   \E i \in IssuedFor("zfs release", sn) : cmds'[i].tag = h /\ i < j
             /\ (\E w \in IssuedFor("logging.warning", sn) : cmds'[w].tag = "skip") =>
                   /\ IssuedFor("zfs release", sn) = {}
                   /\ IssuedFor("zfs destroy", sn) = {}
                   /\ sn \in DOMAIN snaps' /\ snaps'[sn] = snaps[sn]]_vars

\* an execute run released the configured tag of one orphan and destroyed it
\* afterwards, and skipped another orphan in the same call
C35_Witness ==
    /\ args.execute /\ args.hold_snapshots /\ args.remove_orphans \in {"true", "ask", "only"}
    /\ \E i \in Indices("zfs release"), j \in Indices("zfs destroy"), w \in Indices("logging.warning") :
          /\ SameCall(i, j) /\ SameCall(w, j) /\ i < j
          /\ cmds[i].tag = args.zfs_hold_name /\ cmds[j].targets \subseteq cmds[i].targets
          /\ cmds[i].rc = 0 /\ cmds[j].rc = 0
          /\ cmds[w].tag = "skip"

\* C36: no dataset appears twice in the plan list, and none twice among the
\* archive specs of a backup command, whatever the list of root datasets.
C36_DatasetsPlannedOnce ==
    /\ \A j, k \in 1..Len(dataset_plans) : dataset_plans[j].dataset = dataset_plans[k].dataset => j = k
    /\ \A i \in Indices("proxmox-backup-client backup") :
          \A j, k \in 1..Len(cmds[i].targets) : cmds[i].targets[j] = cmds[i].targets[k] => j = k

\* C37: a run that ends on a configuration error (no datastore and no
\* repository string, no secret, invalid change-detection mode) has issued no
\* mutating ZFS command: none has reached the pool, and the pool holds no
\* snapshot of this run.
C37_ConfigErrorBeforeMutation ==
    (pc = "done" /\ outcome \in {"ConfigError", "ValueError"}) =>
        /\ \A i \in 1..Len(cmds) : cmds[i].cmd \in ZfsMutatingCommands => ~cmds[i].ran
        /\ ~args.resume => \A sn \in DOMAIN snaps : sn.name # snapshot_name

\* the timestamp of a later run
LaterTimestamp == "30"

\* what find_orphan_snapshots of a later non-resume run over the same roots
\* and include modes flags in the pool as it is now
FlaggedByLaterRun ==
    Range(find_orphan_snapshots([Start EXCEPT !.ret = <<>>], dataset_plans, args.zfs_snapshot_prefix,
                                LaterTimestamp).ret)

\* C38: when an execute run has ended, every snapshot of its snapshot_name
\* still in the pool, those that zfs snapshot -r created on descendants
\* without a plan included, is flagged as an orphan by find_orphan_snapshots
\* of a later non-resume run over the same roots and include modes.
C38_NoSnapshotLeaks ==
    (pc = "done" /\ args.execute /\ ~args.resume) =>
        \A sn \in DOMAIN snaps : sn.name = snapshot_name => sn \in FlaggedByLaterRun

\* C39: in resume mode the orphan cleanup destroys no snapshot of a planned
\* dataset whose name is the resumed snapshot_name: each is still in the pool
\* after the cleanup step, whatever its timestamp property and whatever the
\* orphan policy.
C39_ResumeKeepsResumedSnapshots ==
    [][(pc = "cleanup_orphans" /\ args.resume) =>
          \A sn \in DOMAIN snaps :
              (sn.ds \in PlannedDatasets /\ sn.name = snapshot_name) => sn \in DOMAIN snaps']_vars

====
